---- MODULE Spec2Model ----
(***************************************************************************)
(* Citra video core: the GPU command dispatch facade (video_core.cpp), the *)
(* fence-counter GPU thread manager (gpu_thread.cpp and its header) and    *)
(* the OpenGL frame mailbox (renderer_opengl.cpp) and the 3DS variant of   *)
(* the CCM authenticated encryption.                                       *)
(*                                                                         *)
(* Spec          the facade, the producer (emulation thread), the GPU      *)
(*               worker thread and the ThreadManager destructor.           *)
(* SpecMailbox   the frame mailbox with one render producer and one        *)
(*               presentation consumer.                                    *)
(* SpecPresent   SwapBuffers and Present around the mailbox, with the      *)
(*               render and present fences of the frames.                  *)
(* SpecTeardown  the mailbox and its destructor.                           *)
(* SpecCcm       threeds_ccm_encrypt_and_tag / threeds_ccm_auth_decrypt    *)
(*               (3ds_ccm.cpp) on arguments drawn from small sets.         *)
(* SpecVideoCore VideoCore::Init, Shutdown and RequestScreenshot.          *)
(* SpecShader    ShaderDoubleCache::Get (gl_shader_manager.cpp).           *)
(* SpecReload    OGLTextureMailbox::ReloadRenderFrame / ReloadPresentFrame.*)
(* SpecEmu       EmuThread::run with the host setting its flags.           *)
(* SpecOsd       OnScreenDisplay, VideoPresentation::Present / ToggleOSD.  *)
(* SpecConv      FormatConverterOpenGL::Convert / GetConverter.            *)
(*                                                                         *)
(* A condition_variable wait with a predicate is modelled with an explicit *)
(* blocked position.  A blocked thread is woken by notify_one; a spurious  *)
(* wake-up re-evaluates the predicate under the lock, so it is visible     *)
(* only when the predicate has become true and is a stuttering step        *)
(* otherwise.                                                              *)
(***************************************************************************)
EXTENDS Integers, Sequences, FiniteSets, TLC

\* ------------------------------------------------------------------ bounds
\* Number of facade calls issued by the emulation thread in one behaviour.
MaxCommands == 2

\* ------------------------------------------------------- program constants
\* SynchState::IsSynchronized: constexpr std::size_t max_queue_gap{5}
max_queue_gap == 5
\* constexpr std::size_t SWAP_CHAIN_SIZE = 4
SWAP_CHAIN_SIZE == 4

\* --------------------------------------------------------------- inputs
\* Arguments the emulation thread passes to the facade.
Heads == {7}
Lengths == {0, 2}
Addrs == {16}
Sizes == {4}
\* The GPU register blocks a MemoryFill / DisplayTransfer config pointer
\* refers to.
FillConfigPtr == "memory_fill_config"
TransferConfigPtr == "display_transfer_config"
ConfigPtrs == {FillConfigPtr, TransferConfigPtr}
\* A register block holds one of two values.
ConfigValues == {0, 1}
SecondFillers == {TRUE}

VARIABLES
    \* Settings::values.use_asynchronous_gpu_emulation
    use_async,
    \* SynchState
    is_running, queue, last_fence, signaled_fence,
    \* RunThread: position, the popped container, the window context
    pc_w, next, ctx_held, acquire_count,
    \* emulation thread: position, command being pushed, its fence,
    \* the fence a WaitForSynchronization call waits for
    pc_p, cur, cur_fence, wait_fence,
    \* ~ThreadManager
    dtor_pc,
    \* GPU registers the config pointers refer to
    regs,
    \* histories: facade calls, containers pushed, backend operations run
    calls, pushed, executed,
    \* OGLTextureMailbox
    free_queue, present_queue, previous_frame,
    \* RendererOpenGL::SwapBuffers (producer) and Present (consumer)
    pc_r, render_frame, pc_c, present_ret, last_released,
    \* Frontend::Frame::render_fence / present_fence of each pool frame, the
    \* rendering each frame's textures hold, the position inside
    \* SwapBuffers, the fence Present waited on, ~OGLTextureMailbox has run
    render_fence, present_fence, rendered, pc_s, waited_fence, destroyed,
    \* threeds_ccm_*: position, arguments, result of encrypt_and_tag, the
    \* ciphertext and tag handed to auth_decrypt, its result
    ccm_pc, ccm_in, ccm_enc, ccm_given, ccm_dec,
    \* VideoCore globals: g_renderer, g_gpu_thread, position in
    \* Init / Shutdown, the screenshot request globals, the position and
    \* argument of each RequestScreenshot caller, the callers accepted
    g_renderer, g_gpu_thread, vc_pc,
    g_renderer_screenshot_requested, g_screenshot_bits,
    g_screenshot_complete_callback, g_screenshot_framebuffer_layout,
    req_pc, accepted,
    \* ShaderDoubleCache: shader_map, shader_cache, the next name
    \* glCreateShader hands out; histories: CodeGenerator invocations per
    \* key, Create calls per source text, the handle each key's first
    \* lookup returned, the last lookup
    shader_map, shader_cache, next_handle, generated, compiled,
    first_handle, lookup,
    \* ReloadRenderFrame / ReloadPresentFrame: position, arguments and loop
    \* index, Frame::res_scale and Frame::texture_reloaded of each frame,
    \* Critical records logged and a non-complete status seen in the
    \* current call, the call that ended last
    reload_pc, reload_arg, frame_res_scale, texture_reloaded, critical,
    incomplete, reload_done,
    \* EmuThread: position in run(), the running, exec_step and stop_run
    \* flags, was_active, the rendering context is held; histories: the core
    \* calls made, the ErrorThrown signals emitted, the last RunLoop result
    emu_pc, running, exec_step, stop_run, was_active, core_context, trace,
    emitted, last_result,
    \* OnScreenDisplay::MessageQueue: queue, fps, show_fps, progress;
    \* VideoPresentation::osd_enabled; the values the progress providers
    \* return; histories: the progress entries whose completion a Render
    \* has reported, the records the last Render emitted, the last call
    message_queue, fps, show_fps, progress, osd_enabled, progress_value,
    completed_seen, osd_out, osd_call,
    \* FormatConverterOpenGL: constructed or not, the two extension flags of
    \* the context, has_stencil_texture, the converters array; the last
    \* Convert call and its outcome
    conv_pc, GL_ARB_stencil_texturing, GL_ARB_texture_view,
    has_stencil_texture, converters, conv_call, conv_result,
    \* GetResolutionScaleFactor: g_hw_renderer_enabled, the configured
    \* Settings::values.resolution_factor, the window layout's scaling ratio,
    \* the last call (what it read and what it returned)
    g_hw_renderer_enabled, resolution_factor, scaling_ratio, scale_call,
    \* Threads that call PushCommand and WaitForSynchronization at the same
    \* time: position, the local fence and the fence waited for of each
    thread,
    \* The idle-tracking ThreadManager: SynchState::command_queues, the
    \* index push_queue points to, is_idle; positions of the GPU thread and
    \* of the caller; the PushCommand call in progress; commands executed
    command_queues, push_queue, is_idle, idle_pc, idle_call, idle_executed,
    \* EmuThread::run statement by statement: the flags the thread read in
    \* the current iteration, the last debug-mode signal it emitted, the
    \* single-step requests made by the host
    observed, debug_mode, step_requests,
    \* ShaderProgramManager: Impl::current, Impl::program_cache (handle per
    \* triple, 0 when absent or invalid), state.draw.shader_program;
    \* histories: links and binary-cache records appended per triple
    current, program_cache, shader_program, linked, appended,
    \* BinaryCacheReader::failed_to_load and all_keys; history: the records
    \* passed to Read (full key, whether the record failed to load)
    failed_to_load, all_keys, records

gpu_vars == <<use_async, is_running, queue, last_fence, signaled_fence,
              pc_w, next, ctx_held, acquire_count, pc_p, cur, cur_fence,
              wait_fence, dtor_pc, regs, calls, pushed, executed>>
mailbox_vars == <<free_queue, present_queue, previous_frame, pc_r,
                  render_frame, pc_c, present_ret, last_released>>
present_vars == <<render_fence, present_fence, rendered, pc_s, waited_fence,
                  destroyed>>
ccm_vars == <<ccm_pc, ccm_in, ccm_enc, ccm_given, ccm_dec>>
screenshot_vars == <<g_renderer_screenshot_requested, g_screenshot_bits,
                     g_screenshot_complete_callback,
                     g_screenshot_framebuffer_layout, req_pc, accepted>>
core_vars == <<g_renderer, g_gpu_thread, vc_pc, screenshot_vars>>
shader_vars == <<shader_map, shader_cache, next_handle, generated, compiled,
                 first_handle, lookup>>
reload_vars == <<reload_pc, reload_arg, frame_res_scale, texture_reloaded,
                 critical, incomplete, reload_done>>
emu_vars == <<emu_pc, running, exec_step, stop_run, was_active,
              core_context, trace, emitted, last_result>>
osd_vars == <<message_queue, fps, show_fps, progress, osd_enabled,
              progress_value, completed_seen, osd_out, osd_call>>
conv_vars == <<conv_pc, GL_ARB_stencil_texturing, GL_ARB_texture_view,
               has_stencil_texture, converters, conv_call, conv_result>>
scale_vars == <<g_hw_renderer_enabled, resolution_factor, scaling_ratio,
               scale_call>>
sync_vars == <<thread>>
idle_vars == <<command_queues, push_queue, is_idle, idle_pc, idle_call,
              idle_executed>>
debug_vars == <<observed, debug_mode, step_requests>>
program_vars == <<current, program_cache, shader_program, linked, appended>>
reader_vars == <<failed_to_load, all_keys, records>>
late_vars == <<scale_vars, sync_vars, idle_vars, debug_vars, program_vars,
              reader_vars>>
ui_vars == <<shader_vars, reload_vars, emu_vars, osd_vars, conv_vars,
             late_vars>>
\* Everything outside the GPU thread manager and the mailbox queues.
other_vars == <<present_vars, ccm_vars, core_vars, ui_vars>>
vars == <<gpu_vars, mailbox_vars, other_vars>>

\* ------------------------------------------------------------- commands
SubmitListCommand(head, length) ==
    [kind |-> "SubmitList", head |-> head, length |-> length]
SwapBuffersCommand == [kind |-> "SwapBuffers"]
MemoryFillCommand(config, is_second_filler) ==
    [kind |-> "MemoryFill", config |-> config,
     is_second_filler |-> is_second_filler]
DisplayTransferCommand(config) ==
    [kind |-> "DisplayTransfer", config |-> config]
FlushRegionCommand(addr, size) ==
    [kind |-> "FlushRegion", addr |-> addr, size |-> size]
InvalidateRegionCommand(addr, size) ==
    [kind |-> "InvalidateRegion", addr |-> addr, size |-> size]
FlushAndInvalidateRegionCommand(addr, size) ==
    [kind |-> "FlushAndInvalidateRegion", addr |-> addr, size |-> size]

\* CommandDataContainer(data, next_fence); the default container holds the
\* variant's first alternative, default constructed, and fence 0.
CommandDataContainer(data, next_fence) == [data |-> data, fence |-> next_fence]
DefaultContainer == CommandDataContainer(SubmitListCommand(0, 0), 0)

\* ------------------------------------------------------ backend operations
ProcessCommandList(head, length) ==
    [op |-> "ProcessCommandList", head |-> head, length |-> length]
RendererSwapBuffers == [op |-> "SwapBuffers"]
ProcessMemoryFill(config, is_second_filler) ==
    [op |-> "ProcessMemoryFill", config |-> config,
     is_second_filler |-> is_second_filler]
ProcessDisplayTransfer(config) ==
    [op |-> "ProcessDisplayTransfer", config |-> config]
RasterizerFlushRegion(addr, size) ==
    [op |-> "FlushRegion", addr |-> addr, size |-> size]
RasterizerInvalidateRegion(addr, size) ==
    [op |-> "InvalidateRegion", addr |-> addr, size |-> size]
RasterizerFlushAndInvalidateRegion(addr, size) ==
    [op |-> "FlushAndInvalidateRegion", addr |-> addr, size |-> size]

\* ExecuteCommand: the backend operation a command runs.  mem is the GPU
\* register file at the time of execution: the config pointer of a MemoryFill
\* or DisplayTransfer command is dereferenced here.
ExecuteCommand(command, mem) ==
    CASE command.kind = "SubmitList" ->
            ProcessCommandList(command.head, command.length)
      [] command.kind = "SwapBuffers" -> RendererSwapBuffers
      [] command.kind = "MemoryFill" ->
            ProcessMemoryFill(mem[command.config], command.is_second_filler)
      [] command.kind = "DisplayTransfer" ->
            ProcessDisplayTransfer(mem[command.config])
      [] command.kind = "FlushRegion" ->
            RasterizerFlushRegion(command.addr, command.size)
      [] command.kind = "InvalidateRegion" ->
            RasterizerInvalidateRegion(command.addr, command.size)
      [] command.kind = "FlushAndInvalidateRegion" ->
            RasterizerFlushAndInvalidateRegion(command.addr, command.size)

\* ----------------------------------------------------------------- Init
Frames == 1..SWAP_CHAIN_SIZE
NullFrame == 0

RECURSIVE SeqOfRange(_, _)
SeqOfRange(lo, hi) == IF lo > hi THEN <<>> ELSE <<lo>> \o SeqOfRange(lo + 1, hi)

\* OGLTextureMailbox(): every frame of the swap chain is pushed to free_queue.
MailboxInit ==
    /\ free_queue = SeqOfRange(1, SWAP_CHAIN_SIZE)
    /\ present_queue = <<>>
    /\ previous_frame = NullFrame
    /\ pc_r = "idle"
    /\ render_frame = NullFrame
    /\ pc_c = "idle"
    /\ present_ret = NullFrame
    /\ last_released = NullFrame

\* VideoCore::Init: the ThreadManager (and its worker) exists only under the
\* asynchronous strategy.  SynchState's member initialisers.
GpuInit ==
    /\ use_async \in BOOLEAN
    /\ is_running = TRUE
    /\ queue = <<>>
    /\ last_fence = 0
    /\ signaled_fence = 0
    /\ pc_w = IF use_async THEN "wait1" ELSE "none"
    /\ next = DefaultContainer
    /\ ctx_held = FALSE
    /\ acquire_count = 0
    /\ pc_p = "idle"
    /\ cur = SubmitListCommand(0, 0)
    /\ cur_fence = 0
    /\ wait_fence = 0
    /\ dtor_pc = "none"
    /\ regs = [p \in ConfigPtrs |-> 0]
    /\ calls = <<>>
    /\ pushed = <<>>
    /\ executed = <<>>

\* Frontend::Frame: render_fence and present_fence are null until SwapBuffers
\* and Present create them; nothing has been rendered into any frame.
PresentInit ==
    /\ render_fence = [f \in Frames |-> 0]
    /\ present_fence = [f \in Frames |-> 0]
    /\ rendered = [f \in Frames |-> 0]
    /\ pc_s = "get"
    /\ waited_fence = 0
    /\ destroyed = FALSE

\* Arguments of the threeds_ccm_* calls.  The nonce, associated data and
\* plaintext bytes are fixed byte patterns of the given lengths.
Keys == {3, 200}
NonceLengths == {6, 7, 13, 14}
AddLengths == {0, 5, 20, 65281}
TagLengths == {0, 2, 3, 4, 8, 16, 18}
PlainLengths == {0, 1, 16, 17, 33}
\* Lengths whose 16-byte rounding does not fit two bytes: 65521 itself does.
LongLengths == {65521, 65536}
CcmArgs(keys, iv_lens, add_lens, tag_lens, lengths) ==
    [key : keys, iv_len : iv_lens, add_len : add_lens, tag_len : tag_lens,
     length : lengths]
CcmInputs ==
    CcmArgs(Keys, NonceLengths, AddLengths, TagLengths, PlainLengths)
    \cup CcmArgs({3}, {13, 14}, {0}, {2, 4}, LongLengths)
\* No call has been made: nothing returned, nothing written.
NoResult ==
    [ret |-> 0, output |-> <<>>, tag |-> <<>>, b0 |-> <<>>, cipher_ops |-> 0]
CcmIdle ==
    /\ ccm_pc = "start"
    /\ ccm_in = [key |-> 3, iv_len |-> 13, add_len |-> 0, tag_len |-> 4,
                 length |-> 0]
    /\ ccm_enc = NoResult
    /\ ccm_given = [input |-> <<>>, tag |-> <<>>]
    /\ ccm_dec = NoResult
CcmInit ==
    /\ ccm_pc = "start"
    /\ ccm_in \in CcmInputs
    /\ ccm_enc = NoResult
    /\ ccm_given = [input |-> <<>>, tag |-> <<>>]
    /\ ccm_dec = NoResult

\* The two threads that may call VideoCore::RequestScreenshot.
Callers == {1, 2}
\* Before VideoCore::Init: both unique_ptrs are null, the screenshot flag is
\* false (namespace-scope objects are zero-initialised).
VideoCoreInit ==
    /\ g_renderer = FALSE
    /\ g_gpu_thread = FALSE
    /\ vc_pc = "uninit"
    /\ g_renderer_screenshot_requested = FALSE
    /\ g_screenshot_bits = 0
    /\ g_screenshot_complete_callback = 0
    /\ g_screenshot_framebuffer_layout = 0
    /\ req_pc = [c \in Callers |-> "idle"]
    /\ accepted = {}

\* Configuration keys and shader setups handed to ShaderDoubleCache::Get.
ConfigKeys == {1, 2, 3, 4}
Setups == {1, 2}
\* std::nullopt of the code generator.
NoProgram == 0
\* The source texts the code generator produces.
Programs == {1, 2, 3}
\* No entry in an unordered_map / no lookup made yet.
Absent == -1
\* shader_map[key] = nullptr
NullShader == -2
\* Saturation of the invocation histories.
MaxCount == 2
\* A default-constructed ShaderDoubleCache: both maps are empty.
ShaderInit ==
    /\ shader_map = [k \in ConfigKeys |-> Absent]
    /\ shader_cache = [p \in Programs |-> Absent]
    /\ next_handle = 1
    /\ generated = [k \in ConfigKeys |-> 0]
    /\ compiled = [p \in Programs |-> 0]
    /\ first_handle = [k \in ConfigKeys |-> Absent]
    /\ lookup = [key |-> Absent, handle |-> Absent, fresh |-> FALSE]

\* glCheckFramebufferStatus results: complete, two incomplete statuses and
\* the 0 returned on error.
GL_FRAMEBUFFER_COMPLETE == 36053
GL_FRAMEBUFFER_INCOMPLETE_ATTACHMENT == 36054
GL_FRAMEBUFFER_UNSUPPORTED == 36061
FramebufferStatuses ==
    {GL_FRAMEBUFFER_COMPLETE, GL_FRAMEBUFFER_INCOMPLETE_ATTACHMENT,
     GL_FRAMEBUFFER_UNSUPPORTED, 0}
\* The frames and the resolution scales a reload is asked for.
ReloadFrames == {1, 2}
ResScales == {1, 2}
\* Frontend::Frame as constructed: res_scale 0, texture_reloaded false.
ReloadInit ==
    /\ reload_pc = "idle"
    /\ reload_arg = [frame |-> 1, res_scale |-> 0, i |-> 0]
    /\ frame_res_scale = [f \in ReloadFrames |-> 0]
    /\ texture_reloaded = [f \in ReloadFrames |-> FALSE]
    /\ critical = 0
    /\ incomplete = FALSE
    /\ reload_done = "none"

\* Core executions (RunLoop and SingleStep calls) in one behaviour.
MaxRuns == 2
\* Core::System::ResultStatus values RunLoop returns.
RunResults == {"Success", "ShutdownRequested", "ErrorSystemFiles"}
\* An EmuThread that has been constructed and started: no flag is set.
EmuInit ==
    /\ emu_pc = "start"
    /\ running = FALSE
    /\ exec_step = FALSE
    /\ stop_run = FALSE
    /\ was_active = FALSE
    /\ core_context = FALSE
    /\ trace = <<>>
    /\ emitted = <<>>
    /\ last_result = "Success"

\* Progress indicators added in one behaviour.
MaxProgress == 2
\* The total every progress provider reports.
ProgressTotal == 1
\* Value providers handed to ShowFPS and ShowProgress.
Providers == {1, 2}
\* Arguments of ShowFPS: message, value provider, position.
FpsArgs == {<<"FPS", 1, "TopLeft">>, <<"VPS", 2, "TopRight">>}
\* Arguments of AddMessage: message, type, duration in ms, colour.
MessageArgs == {<<"saved", "Typeless", 2000, "YELLOW">>,
                <<"pad", "ControllerConnected", 500, "CYAN">>}
\* FPS fps = {}: empty message, no provider, the first enumerator.
NoProvider == 0
\* A new OnScreenDisplay inside a new VideoPresentation: the queue is
\* empty, show_fps false; osd_enabled has no initialiser.
OsdInit ==
    /\ message_queue = <<>>
    /\ fps = [message |-> "", color |-> "", duration |-> 0,
              position |-> "TopLeft", value_provider |-> NoProvider]
    /\ show_fps = FALSE
    /\ progress = <<>>
    /\ osd_enabled = "indeterminate"
    /\ progress_value = [p \in Providers |-> 0]
    /\ completed_seen = {}
    /\ osd_out = <<>>
    /\ osd_call = [op |-> "none"]

\* Pixel formats passed to FormatConverterOpenGL::Convert.
PixelFormats == {"RGBA8", "RGB8", "D24", "D24S8"}
\* Before the FormatConverterOpenGL is constructed: no converter exists.
ConvInit ==
    /\ conv_pc = "unconstructed"
    /\ GL_ARB_stencil_texturing = FALSE
    /\ GL_ARB_texture_view = FALSE
    /\ has_stencil_texture = FALSE
    /\ converters = [ReadPixel |-> FALSE, FastStencil |-> FALSE]
    /\ conv_call = [src_format |-> "none", dst_format |-> "none"]
    /\ conv_result = [ret |-> FALSE, ran |-> "none"]

\* Hardware rendering flag, resolution override (0: none) and scaling
\* ratios of the window layout that the settings and the window can hold.
Factors == {0, 1, 2, 3}
Ratios == {1, 2, 3}
\* Before any call of GetResolutionScaleFactor: the namespace-scope atomic
\* is zero-initialised; no override; a window of native size.
ScaleInit ==
    /\ g_hw_renderer_enabled = FALSE
    /\ resolution_factor = 0
    /\ scaling_ratio = 1
    /\ scale_call = [called |-> FALSE, hw |-> FALSE, factor |-> 0,
                     ratio |-> 1, ret |-> 0]

\* The threads that use one ThreadManager at the same time.
Threads == {1, 2}
\* No thread is inside PushCommand or WaitForSynchronization.
SyncInit ==
    thread = [t \in Threads |-> [pc |-> "idle", fence |-> 0, wait |-> 0]]

\* SynchState of the idle-tracking manager as constructed: both queues
\* empty, push_queue = &command_queues[0], is_idle{true}; RunThread is
\* about to call WaitForWakeup; no PushCommand call has been made.
IdleInit ==
    /\ command_queues = [q \in {0, 1} |-> <<>>]
    /\ push_queue = 0
    /\ is_idle = TRUE
    /\ idle_pc = [gpu |-> "wakeup1", cpu |-> "idle"]
    /\ idle_call = [id |-> 0, wait_for_idle |-> FALSE]
    /\ idle_executed = <<>>

\* run() has read no flag and emitted no debug-mode signal.
DebugInit ==
    /\ observed = [running |-> FALSE, exec_step |-> FALSE]
    /\ debug_mode = "none"
    /\ step_requests = 0

\* Shader handles the Use... operations select for each stage (0: the
\* trivial geometry stage) and the triples a draw is made with.
StageHandles == [vs |-> {1, 2}, gs |-> {0, 3}, fs |-> {4}]
ShaderTuples == [vs : StageHandles.vs, gs : StageHandles.gs,
                 fs : StageHandles.fs]
\* A ShaderTuple as default-constructed.
NoShaders == [vs |-> 0, gs |-> 0, fs |-> 0]
\* An Impl as constructed: current{}, an empty program_cache.
ProgramInit ==
    /\ current = NoShaders
    /\ program_cache = [t \in ShaderTuples |-> 0]
    /\ shader_program = 0
    /\ linked = [t \in ShaderTuples |-> 0]
    /\ appended = [t \in ShaderTuples |-> 0]

\* Records of the binary cache file read in one behaviour.
MaxRecords == 2
\* sizeof(GLenum)
SizeofGLenum == 4
\* 64-bit hash keys, written as their upper and lower 32 bits
\* (key = hi * 2^32 + lo), and the sizes of the records' values.
HashKeys == [hi : {0, 1}, lo : {5, 6}]
ValueSizes == {2, 8}
\* A BinaryCacheReader before OpenAndRead: both vectors are empty.
ReaderInit ==
    /\ failed_to_load = <<>>
    /\ all_keys = <<>>
    /\ records = <<>>

LateInit == ScaleInit /\ SyncInit /\ IdleInit /\ DebugInit /\ ProgramInit
            /\ ReaderInit
UiInit == ShaderInit /\ ReloadInit /\ EmuInit /\ OsdInit /\ ConvInit
          /\ LateInit

Init == GpuInit /\ MailboxInit /\ PresentInit /\ CcmIdle /\ VideoCoreInit
        /\ UiInit
InitCcm ==
    /\ GpuInit
    /\ ~use_async
    /\ MailboxInit
    /\ PresentInit
    /\ CcmInit
    /\ VideoCoreInit
    /\ UiInit

\* ===================================================================
\* GPU command dispatch facade and GPU thread manager
\* ===================================================================

\* The emulation thread is between two facade calls and the ThreadManager
\* has not been destroyed.
CanCall ==
    /\ pc_p = "idle"
    /\ dtor_pc = "none"
    /\ Len(calls) < MaxCommands

\* Entry into ThreadManager::PushCommand with the given command.
PushCommandCall(command_data) ==
    /\ cur' = command_data
    /\ pc_p' = "push_fence"
    /\ UNCHANGED executed

\* The else branches of the facade: the backend operation that the
\* synchronous strategy runs for a call.  call.value is what *config holds
\* when the call is made.
DirectOp(call) ==
    CASE call.fn = "ProcessCommandList" ->
            ProcessCommandList(call.head, call.length)
      [] call.fn = "SwapBuffers" -> RendererSwapBuffers
      [] call.fn = "DisplayTransfer" -> ProcessDisplayTransfer(call.value)
      [] call.fn = "MemoryFill" ->
            ProcessMemoryFill(call.value, call.is_second_filler)
      [] call.fn = "FlushRegion" -> RasterizerFlushRegion(call.addr, call.size)
      [] call.fn = "InvalidateRegion" ->
            RasterizerInvalidateRegion(call.addr, call.size)
      [] call.fn = "FlushAndInvalidateRegion" ->
            RasterizerFlushAndInvalidateRegion(call.addr, call.size)

\* The synchronous strategy: the backend operation runs on the caller.
Direct(call) ==
    /\ executed' = Append(executed, [op |-> DirectOp(call), fence |-> 0])
    /\ UNCHANGED <<cur, pc_p>>

\* Mutant: SubmitList without its length check.
ThreadManager_SubmitList_NoLengthCheck(head, length) ==
    PushCommandCall(SubmitListCommand(head, length))

\* ThreadManager::SubmitList .. FlushAndInvalidateRegion
ThreadManager_SubmitList(head, length) ==
    IF length = 0
    THEN UNCHANGED <<cur, pc_p, executed>>
    ELSE PushCommandCall(SubmitListCommand(head, length))
ThreadManager_SwapBuffers == PushCommandCall(SwapBuffersCommand)
ThreadManager_DisplayTransfer(config) ==
    PushCommandCall(DisplayTransferCommand(config))
ThreadManager_MemoryFill(config, is_second_filler) ==
    PushCommandCall(MemoryFillCommand(config, is_second_filler))
ThreadManager_FlushRegion(addr, size) ==
    PushCommandCall(FlushRegionCommand(addr, size))
ThreadManager_InvalidateRegion(addr, size) ==
    PushCommandCall(InvalidateRegionCommand(addr, size))
ThreadManager_FlushAndInvalidateRegion(addr, size) ==
    PushCommandCall(FlushAndInvalidateRegionCommand(addr, size))

FacadeFrame ==
    UNCHANGED <<use_async, is_running, queue, last_fence, signaled_fence,
                pc_w, next, ctx_held, acquire_count, cur_fence, wait_fence,
                dtor_pc, regs, pushed, mailbox_vars,
                   other_vars>>

\* VideoCore::ProcessCommandList .. FlushAndInvalidateRegion.  Each call is
\* recorded in calls; a call that takes a config pointer is recorded with the
\* value the registers hold at the time of the call.
VideoCore_ProcessCommandList ==
    \E head \in Heads, length \in Lengths :
        /\ CanCall
        /\ calls' = Append(calls, [fn |-> "ProcessCommandList",
                                   head |-> head, length |-> length])
        /\ IF use_async
           THEN ThreadManager_SubmitList(head, length)
           ELSE Direct([fn |-> "ProcessCommandList",
                        head |-> head, length |-> length])
        /\ FacadeFrame

VideoCore_SwapBuffers ==
    /\ CanCall
    /\ calls' = Append(calls, [fn |-> "SwapBuffers"])
    /\ IF use_async
       THEN ThreadManager_SwapBuffers
       ELSE Direct([fn |-> "SwapBuffers"])
    /\ FacadeFrame

VideoCore_DisplayTransfer ==
    \E config \in {TransferConfigPtr} :
        /\ CanCall
        /\ calls' = Append(calls, [fn |-> "DisplayTransfer",
                                   config |-> config, value |-> regs[config]])
        /\ IF use_async
           THEN ThreadManager_DisplayTransfer(config)
           ELSE Direct([fn |-> "DisplayTransfer", config |-> config,
                        value |-> regs[config]])
        /\ FacadeFrame

VideoCore_MemoryFill ==
    \E config \in {FillConfigPtr}, is_second_filler \in SecondFillers :
        /\ CanCall
        /\ calls' = Append(calls, [fn |-> "MemoryFill", config |-> config,
                                   is_second_filler |-> is_second_filler,
                                   value |-> regs[config]])
        /\ IF use_async
           THEN ThreadManager_MemoryFill(config, is_second_filler)
           ELSE Direct([fn |-> "MemoryFill", config |-> config,
                        is_second_filler |-> is_second_filler,
                        value |-> regs[config]])
        /\ FacadeFrame

VideoCore_FlushRegion ==
    \E addr \in Addrs, size \in Sizes :
        /\ CanCall
        /\ calls' = Append(calls, [fn |-> "FlushRegion",
                                   addr |-> addr, size |-> size])
        /\ IF use_async
           THEN ThreadManager_FlushRegion(addr, size)
           ELSE Direct([fn |-> "FlushRegion", addr |-> addr, size |-> size])
        /\ FacadeFrame

VideoCore_InvalidateRegion ==
    \E addr \in Addrs, size \in Sizes :
        /\ CanCall
        /\ calls' = Append(calls, [fn |-> "InvalidateRegion",
                                   addr |-> addr, size |-> size])
        /\ IF use_async
           THEN ThreadManager_InvalidateRegion(addr, size)
           ELSE Direct([fn |-> "InvalidateRegion",
                        addr |-> addr, size |-> size])
        /\ FacadeFrame

VideoCore_FlushAndInvalidateRegion ==
    \E addr \in Addrs, size \in Sizes :
        /\ CanCall
        /\ calls' = Append(calls, [fn |-> "FlushAndInvalidateRegion",
                                   addr |-> addr, size |-> size])
        /\ IF use_async
           THEN ThreadManager_FlushAndInvalidateRegion(addr, size)
           ELSE Direct([fn |-> "FlushAndInvalidateRegion",
                        addr |-> addr, size |-> size])
        /\ FacadeFrame

\* The emulation thread writes a GPU register block that a config pointer
\* refers to (between two facade calls; it is the only writer).
WriteConfig ==
    \E p \in ConfigPtrs, v \in ConfigValues :
        /\ pc_p = "idle"
        /\ dtor_pc = "none"
        /\ v # regs[p]
        /\ regs' = [regs EXCEPT ![p] = v]
        /\ UNCHANGED <<use_async, is_running, queue, last_fence,
                       signaled_fence, pc_w, next, ctx_held, acquire_count,
                       pc_p, cur, cur_fence, wait_fence, dtor_pc, calls,
                       pushed, executed, mailbox_vars,
                   other_vars>>

\* ------------------------------------------------ ThreadManager::PushCommand
\* The value a command's config pointer refers to (0 for the other kinds).
ConfigValueOf(command, mem) ==
    IF command.kind \in {"MemoryFill", "DisplayTransfer"}
    THEN mem[command.config]
    ELSE 0

\* const u64 fence{++state.last_fence};
PushCommand_Fence ==
    /\ pc_p = "push_fence"
    /\ last_fence' = last_fence + 1
    /\ cur_fence' = last_fence + 1
    /\ pc_p' = "push_queue"
    /\ UNCHANGED <<use_async, is_running, queue, signaled_fence, pc_w, next,
                   ctx_held, acquire_count, cur, wait_fence, dtor_pc, regs,
                   calls, pushed, executed, mailbox_vars,
                   other_vars>>

\* state.queue.Push(CommandDataContainer(std::move(command_data), fence));
\* pushed also records the value the config pointer refers to at this time.
PushCommand_Push ==
    /\ pc_p = "push_queue"
    /\ queue' = Append(queue, CommandDataContainer(cur, cur_fence))
    /\ pushed' = Append(pushed, [data |-> cur, fence |-> cur_fence,
                                 value |-> ConfigValueOf(cur, regs)])
    /\ pc_p' = "push_signal"
    /\ UNCHANGED <<use_async, is_running, last_fence, signaled_fence, pc_w,
                   next, ctx_held, acquire_count, cur, cur_fence, wait_fence,
                   dtor_pc, regs, calls, executed, mailbox_vars,
                   other_vars>>

\* commands_condition.notify_one(): a worker blocked in WaitForCommands is
\* woken and re-evaluates its predicate.
NotifyCommands(pc) ==
    CASE pc = "blocked1" -> "wait1"
      [] pc = "blocked2" -> "wait2"
      [] OTHER -> pc

\* state.SignalCommands(); return fence;
PushCommand_Signal ==
    /\ pc_p = "push_signal"
    /\ pc_w' = IF queue = <<>> THEN pc_w ELSE NotifyCommands(pc_w)
    /\ pc_p' = "call_return"
    /\ UNCHANGED <<use_async, is_running, queue, last_fence, signaled_fence,
                   next, ctx_held, acquire_count, cur, cur_fence, wait_fence,
                   dtor_pc, regs, calls, pushed, executed, mailbox_vars,
                   other_vars>>

\* The facade call returns to the emulation thread.
Facade_Return ==
    /\ pc_p = "call_return"
    /\ pc_p' = "idle"
    /\ UNCHANGED <<use_async, is_running, queue, last_fence, signaled_fence,
                   pc_w, next, ctx_held, acquire_count, cur, cur_fence,
                   wait_fence, dtor_pc, regs, calls, pushed, executed,
                   mailbox_vars,
                   other_vars>>

\* -------------------------------------- SynchState::WaitForSynchronization
\* Mutant: the comparison is off by one.
SynchronizationReached_OffByOne(fence) == signaled_fence + 1 >= fence

\* The predicate of the fast path and of the condition wait.
SynchronizationReached(fence) == signaled_fence >= fence

WaitFrame ==
    UNCHANGED <<use_async, is_running, queue, last_fence, signaled_fence,
                pc_w, next, ctx_held, acquire_count, cur, cur_fence, dtor_pc,
                regs, calls, pushed, executed, mailbox_vars,
                   other_vars>>

\* A caller waits for a fence that PushCommand has returned.
\* if (signaled_fence >= fence) return;
WaitForSynchronization_Call ==
    \E fence \in 1..last_fence :
        /\ pc_p = "idle"
        /\ dtor_pc = "none"
        /\ use_async
        /\ wait_fence' = fence
        /\ pc_p' = IF SynchronizationReached(fence)
                   THEN "ws_return" ELSE "ws_lock"
        /\ WaitFrame

\* synchronization_condition.wait(lock, pred): the predicate is evaluated
\* under synchronization_mutex; the caller blocks when it is false.
WaitForSynchronization_Wait ==
    /\ pc_p = "ws_lock"
    /\ pc_p' = IF SynchronizationReached(wait_fence)
               THEN "ws_return" ELSE "ws_blocked"
    /\ UNCHANGED wait_fence
    /\ WaitFrame

\* A spurious wake-up that finds the predicate true.
WaitForSynchronization_SpuriousWake ==
    /\ pc_p = "ws_blocked"
    /\ SynchronizationReached(wait_fence)
    /\ pc_p' = "ws_return"
    /\ UNCHANGED wait_fence
    /\ WaitFrame

WaitForSynchronization_Return ==
    /\ pc_p = "ws_return"
    /\ pc_p' = "idle"
    /\ UNCHANGED wait_fence
    /\ WaitFrame

\* ------------------------------------------------------------- RunThread
WorkerFrame ==
    UNCHANGED <<use_async, is_running, last_fence, pc_p, cur, cur_fence,
                wait_fence, dtor_pc, regs, calls, pushed, mailbox_vars,
                   other_vars>>

\* SynchState::WaitForCommands: commands_condition.wait(lock, pred) with the
\* predicate !queue.Empty().  Called before the context is acquired (wait1)
\* and at the top of the loop body (wait2).
WaitForCommands ==
    /\ pc_w \in {"wait1", "wait2"}
    /\ pc_w' = IF queue # <<>>
               THEN (IF pc_w = "wait1" THEN "check_running" ELSE "pop")
               ELSE (IF pc_w = "wait1" THEN "blocked1" ELSE "blocked2")
    /\ UNCHANGED <<queue, signaled_fence, next, ctx_held, acquire_count,
                   executed>>
    /\ WorkerFrame

\* A spurious wake-up of WaitForCommands that finds the queue non-empty.
WaitForCommands_SpuriousWake ==
    /\ pc_w \in {"blocked1", "blocked2"}
    /\ queue # <<>>
    /\ pc_w' = NotifyCommands(pc_w)
    /\ UNCHANGED <<queue, signaled_fence, next, ctx_held, acquire_count,
                   executed>>
    /\ WorkerFrame

\* Mutant: the worker acquires the context whatever is_running holds.
RunThread_CheckRunning_NoAbort ==
    /\ pc_w = "check_running"
    /\ pc_w' = "acquire"
    /\ UNCHANGED <<queue, signaled_fence, next, ctx_held, acquire_count,
                   executed>>
    /\ WorkerFrame

\* if (!state.is_running) return;
RunThread_CheckRunning ==
    /\ pc_w = "check_running"
    /\ pc_w' = IF ~is_running THEN "aborted" ELSE "acquire"
    /\ UNCHANGED <<queue, signaled_fence, next, ctx_held, acquire_count,
                   executed>>
    /\ WorkerFrame

\* Frontend::ScopeAcquireWindowContext acquire_context{...};
RunThread_AcquireContext ==
    /\ pc_w = "acquire"
    /\ ctx_held' = TRUE
    /\ acquire_count' = acquire_count + 1
    /\ pc_w' = "loop"
    /\ UNCHANGED <<queue, signaled_fence, next, executed>>
    /\ WorkerFrame

\* while (state.is_running); leaving the loop ends the function, and the
\* scope's destructor releases the context.
RunThread_LoopTest ==
    /\ pc_w = "loop"
    /\ IF is_running
       THEN /\ pc_w' = "wait2"
            /\ UNCHANGED ctx_held
       ELSE /\ pc_w' = "exited"
            /\ ctx_held' = FALSE
    /\ UNCHANGED <<queue, signaled_fence, next, acquire_count, executed>>
    /\ WorkerFrame

\* Mutant: Pop removes the newest container instead of the oldest.
RunThread_Pop_Lifo ==
    /\ pc_w = "pop"
    /\ IF queue = <<>>
       THEN /\ pc_w' = "loop"
            /\ UNCHANGED <<queue, next>>
       ELSE /\ next' = queue[Len(queue)]
            /\ queue' = SubSeq(queue, 1, Len(queue) - 1)
            /\ pc_w' = "exec"
    /\ UNCHANGED <<signaled_fence, ctx_held, acquire_count, executed>>
    /\ WorkerFrame

\* while (state.queue.Pop(next)): the front container is removed.
RunThread_Pop ==
    /\ pc_w = "pop"
    /\ IF queue = <<>>
       THEN /\ pc_w' = "loop"
            /\ UNCHANGED <<queue, next>>
       ELSE /\ next' = Head(queue)
            /\ queue' = Tail(queue)
            /\ pc_w' = "exec"
    /\ UNCHANGED <<signaled_fence, ctx_held, acquire_count, executed>>
    /\ WorkerFrame

\* ExecuteCommand(&next.data, renderer); executed records the operation run
\* and the container's fence.
RunThread_Execute ==
    /\ pc_w = "exec"
    /\ executed' = Append(executed, [op |-> ExecuteCommand(next.data, regs),
                                     fence |-> next.fence])
    /\ pc_w' = "set_fence"
    /\ UNCHANGED <<queue, signaled_fence, next, ctx_held, acquire_count>>
    /\ WorkerFrame

\* state.signaled_fence = next.fence;
RunThread_SetFence ==
    /\ pc_w = "set_fence"
    /\ signaled_fence' = next.fence
    /\ pc_w' = "try_sync"
    /\ UNCHANGED <<queue, next, ctx_held, acquire_count, executed>>
    /\ WorkerFrame

\* SynchState::IsSynchronized
IsSynchronized == Len(queue) <= max_queue_gap

\* SynchState::TrySynchronize: synchronization_condition.notify_one() under
\* synchronization_mutex when the queue gap is small; a caller blocked in
\* WaitForSynchronization re-evaluates its predicate.
RunThread_TrySynchronize ==
    /\ pc_w = "try_sync"
    /\ pc_p' = IF IsSynchronized /\ pc_p = "ws_blocked"
               THEN "ws_lock" ELSE pc_p
    /\ pc_w' = "pop"
    /\ UNCHANGED <<use_async, is_running, queue, last_fence, signaled_fence,
                   next, ctx_held, acquire_count, cur, cur_fence, wait_fence,
                   dtor_pc, regs, calls, pushed, executed, mailbox_vars,
                   other_vars>>

\* The steps the worker thread can take by itself.
Worker ==
    \/ WaitForCommands
    \/ WaitForCommands_SpuriousWake
    \/ RunThread_CheckRunning
    \/ RunThread_AcquireContext
    \/ RunThread_LoopTest
    \/ RunThread_Pop
    \/ RunThread_Execute
    \/ RunThread_SetFence
    \/ RunThread_TrySynchronize

\* -------------------------------------------- ThreadManager::~ThreadManager
\* state.is_running.exchange(false); called by the thread that owns the
\* manager, after its last facade call.
Destructor_Exchange ==
    /\ use_async
    /\ pc_p = "idle"
    /\ dtor_pc = "none"
    /\ is_running' = FALSE
    /\ dtor_pc' = "join"
    /\ UNCHANGED <<use_async, queue, last_fence, signaled_fence, pc_w, next,
                   ctx_held, acquire_count, pc_p, cur, cur_fence, wait_fence,
                   regs, calls, pushed, executed, mailbox_vars,
                   other_vars>>

\* thread->join(); returns once RunThread has returned.
Destructor_Join ==
    /\ dtor_pc = "join"
    /\ pc_w \in {"aborted", "exited"}
    /\ dtor_pc' = "joined"
    /\ UNCHANGED <<use_async, is_running, queue, last_fence, signaled_fence,
                   pc_w, next, ctx_held, acquire_count, pc_p, cur, cur_fence,
                   wait_fence, regs, calls, pushed, executed, mailbox_vars,
                   other_vars>>

Next ==
    \/ VideoCore_ProcessCommandList
    \/ VideoCore_SwapBuffers
    \/ VideoCore_DisplayTransfer
    \/ VideoCore_MemoryFill
    \/ VideoCore_FlushRegion
    \/ VideoCore_InvalidateRegion
    \/ VideoCore_FlushAndInvalidateRegion
    \/ WriteConfig
    \/ PushCommand_Fence
    \/ PushCommand_Push
    \/ PushCommand_Signal
    \/ Facade_Return
    \/ WaitForSynchronization_Call
    \/ WaitForSynchronization_Wait
    \/ WaitForSynchronization_SpuriousWake
    \/ WaitForSynchronization_Return
    \/ WaitForCommands
    \/ WaitForCommands_SpuriousWake
    \/ RunThread_CheckRunning
    \/ RunThread_AcquireContext
    \/ RunThread_LoopTest
    \/ RunThread_Pop
    \/ RunThread_Execute
    \/ RunThread_SetFence
    \/ RunThread_TrySynchronize
    \/ Destructor_Exchange
    \/ Destructor_Join

Spec == Init /\ [][Next]_vars

\* ===================================================================
\* Properties of the facade and the GPU thread manager
\* ===================================================================
ExecutedFences == {executed[i].fence : i \in 1..Len(executed)}

\* C1: a WaitForSynchronization(f) call, f a fence returned by PushCommand,
\* returns only after the worker has finished executing the command that was
\* enqueued with fence f (and every command enqueued before it).
C1_WaitReturnsAfterExecution ==
    pc_p = "ws_return" => \A f \in 1..wait_fence : f \in ExecutedFences

\* A wait for the second of two commands returns.
C1_Witness ==
    /\ pc_p = "ws_return"
    /\ wait_fence = 2
    /\ Len(executed) = 2

\* C2: under the asynchronous strategy FlushRegion and
\* FlushAndInvalidateRegion return to their caller only once the signaled
\* fence has reached the fence of their command.
C2_FlushReturnsAfterSignal ==
    (pc_p = "call_return"
        /\ cur.kind \in {"FlushRegion", "FlushAndInvalidateRegion"})
    => signaled_fence >= cur_fence

\* The executed commands are a prefix of the pushed ones, the command being
\* executed is the next pushed one, and signaled_fence is the fence of an
\* executed command, at most last_fence.
C3_FifoState ==
    /\ signaled_fence <= last_fence
    /\ use_async =>
        /\ Len(executed) <= Len(pushed)
        /\ \A i \in 1..Len(executed) : executed[i].fence = pushed[i].fence
        /\ \A i, j \in 1..Len(executed) :
               i < j => executed[i].fence < executed[j].fence
        /\ pc_w = "exec" => next.fence = pushed[Len(executed) + 1].fence
        /\ signaled_fence \in ExecutedFences \cup {0}

\* C3: the worker executes commands in enqueue order, one at a time (command
\* i has finished before command j > i starts), and signaled_fence never
\* decreases and never exceeds last_fence.
C3_FifoOrder ==
    /\ []C3_FifoState
    /\ [][signaled_fence' >= signaled_fence]_vars

\* Two commands have been executed and signaled.
C3_Witness ==
    /\ Len(executed) = 2
    /\ signaled_fence = 2
    /\ executed[1].fence = 1

\* C4: the k-th command pushed carries fence k; last_fence starts at 0 and
\* grows by one per pushed command; a SubmitList of length 0 pushes nothing
\* and takes no fence.
IsEmptyList(call) == call.fn = "ProcessCommandList" /\ call.length = 0
PushingCalls == {i \in 1..Len(calls) : ~IsEmptyList(calls[i])}

C4_FenceIsIndex ==
    use_async =>
        /\ \A k \in 1..Len(pushed) : pushed[k].fence = k
        /\ \A k \in 1..Len(queue) :
               queue[k].fence = Len(pushed) - Len(queue) + k
        /\ last_fence = Len(pushed) + (IF pc_p = "push_queue" THEN 1 ELSE 0)
        /\ Cardinality(PushingCalls) =
               Len(pushed) + (IF pc_p \in {"push_fence", "push_queue"}
                              THEN 1 ELSE 0)

\* An empty list was submitted and the command pushed after it has fence 1.
C4_Witness ==
    /\ use_async
    /\ Len(calls) = 2
    /\ IsEmptyList(calls[1])
    /\ Len(pushed) = 1
    /\ pushed[1].fence = 1
    /\ last_fence = 1

\* C5: once the destructor has cleared is_running and waits in join, the
\* worker has returned or can take a step on its own: it is never left
\* blocked, needing a further command or a wake-up that nobody sends.
C5_DestructorTerminates ==
    dtor_pc = "join" => (pc_w \in {"aborted", "exited"} \/ ENABLED Worker)

\* C6: the backend operations the worker has executed, with their arguments,
\* are the operations the synchronous strategy runs for the same calls
\* (empty command lists aside), in the same order.
RECURSIVE DirectOps(_)
DirectOps(cs) ==
    IF cs = <<>> THEN <<>>
    ELSE IF IsEmptyList(Head(cs)) THEN DirectOps(Tail(cs))
    ELSE <<DirectOp(Head(cs))>> \o DirectOps(Tail(cs))

C6_SameBackendOperations ==
    use_async =>
        LET direct == DirectOps(calls) IN
            /\ Len(executed) <= Len(direct)
            /\ \A i \in 1..Len(executed) : executed[i].op = direct[i]

\* C7: a MemoryFill or DisplayTransfer command is executed with the
\* configuration values that were current when it was enqueued.
C7_ConfigOfEnqueueTime ==
    use_async =>
        \A i \in 1..Len(executed) :
            executed[i].op.op \in {"ProcessMemoryFill",
                                   "ProcessDisplayTransfer"}
            => executed[i].op.config = pushed[executed[i].fence].value

\* Where the worker holds the context, by its position in RunThread.
C8_ContextState ==
    /\ acquire_count <= 1
    /\ pc_w = "none" => (acquire_count = 0 /\ ~ctx_held)
    /\ pc_w \in {"wait1", "blocked1", "check_running", "acquire", "aborted"}
       => (acquire_count = 0 /\ ~ctx_held /\ executed = <<>>)
    /\ pc_w \in {"loop", "wait2", "blocked2", "pop", "exec", "set_fence",
                 "try_sync"}
       => (acquire_count = 1 /\ ctx_held /\ Len(pushed) >= 1)
    /\ pc_w = "exited" => (acquire_count = 1 /\ ~ctx_held)
    /\ pc_w = "aborted" => ~is_running

\* C8: the worker holds the context whenever it executes a command; it
\* acquires it once, after the first WaitForCommands has returned, and keeps
\* it until it exits; a worker that finds is_running false after the first
\* wait returns without acquiring it.
C8_ContextHeld ==
    /\ []C8_ContextState
    /\ [][(pc_w = "check_running" /\ pc_w' # pc_w /\ ~is_running)
          => (pc_w' = "aborted" /\ acquire_count' = 0)]_vars

\* The worker has executed a command, left its loop and released the context.
C8_Witness ==
    /\ pc_w = "exited"
    /\ Len(executed) >= 1
    /\ acquire_count = 1
    /\ ~ctx_held

\* ===================================================================
\* OGLTextureMailbox: one producer (RendererOpenGL::SwapBuffers) and one
\* consumer (the presentation thread).  Every member function holds
\* swap_chain_lock for its whole body; the consumer gives it up only while
\* it is blocked in present_cv.wait_for.
\* ===================================================================
\* Timeouts the consumer passes: zero (never blocks) and non-zero.
Timeouts == {0, 1}

MailboxFrame == UNCHANGED <<gpu_vars, ccm_vars, core_vars, ui_vars>>

\* Mutant: with no free frame the newest queued frame is taken back.
GetRenderFrame_StealNewest ==
    /\ pc_r = "idle"
    /\ IF free_queue = <<>>
       THEN IF present_queue = <<>>
            THEN /\ render_frame' \in Frames \cup {NullFrame}
                 /\ UNCHANGED <<free_queue, present_queue>>
            ELSE /\ render_frame' = Head(present_queue)
                 /\ present_queue' = Tail(present_queue)
                 /\ UNCHANGED free_queue
       ELSE /\ render_frame' = Head(free_queue)
            /\ free_queue' = Tail(free_queue)
            /\ UNCHANGED present_queue
    /\ pc_r' = "rendering"
    /\ UNCHANGED <<previous_frame, pc_c, present_ret, last_released>>
    /\ MailboxFrame

\* OGLTextureMailbox::GetRenderFrame.  With both queues empty
\* present_queue.back() is undefined: any frame pointer may come out.
GetRenderFrame ==
    /\ pc_r = "idle"
    /\ IF free_queue = <<>>
       THEN IF present_queue = <<>>
            THEN /\ render_frame' \in Frames \cup {NullFrame}
                 /\ UNCHANGED <<free_queue, present_queue>>
            ELSE /\ render_frame' = present_queue[Len(present_queue)]
                 /\ present_queue' =
                        SubSeq(present_queue, 1, Len(present_queue) - 1)
                 /\ UNCHANGED free_queue
       ELSE /\ render_frame' = Head(free_queue)
            /\ free_queue' = Tail(free_queue)
            /\ UNCHANGED present_queue
    /\ pc_r' = "rendering"
    /\ UNCHANGED <<previous_frame, pc_c, present_ret, last_released>>
    /\ MailboxFrame

\* Mutant: the rendered frame is queued behind the older ones.
ReleaseRenderFrame_PushBack ==
    /\ pc_r = "rendering"
    /\ present_queue' = Append(present_queue, render_frame)
    /\ last_released' = render_frame
    /\ render_frame' = NullFrame
    /\ pc_r' = "idle"
    /\ pc_c' = IF pc_c = "present_wait" THEN "present_woken" ELSE pc_c
    /\ UNCHANGED <<free_queue, previous_frame, present_ret>>
    /\ MailboxFrame

\* OGLTextureMailbox::ReleaseRenderFrame: push_front, then
\* present_cv.notify_one() wakes a consumer blocked in wait_for.
ReleaseRenderFrame ==
    /\ pc_r = "rendering"
    /\ present_queue' = <<render_frame>> \o present_queue
    /\ last_released' = render_frame
    /\ render_frame' = NullFrame
    /\ pc_r' = "idle"
    /\ pc_c' = IF pc_c = "present_wait" THEN "present_woken" ELSE pc_c
    /\ UNCHANGED <<free_queue, previous_frame, present_ret>>
    /\ MailboxFrame

\* Mutant: the frame shown before is not handed back to the free queue.
TryGetPresentFrame_Body_LeakPrevious ==
    IF present_queue = <<>>
    THEN /\ present_ret' = previous_frame
         /\ pc_c' = "ret_previous"
         /\ UNCHANGED <<free_queue, present_queue, previous_frame>>
    ELSE /\ free_queue' = free_queue \o Tail(present_queue)
         /\ present_ret' = Head(present_queue)
         /\ previous_frame' = Head(present_queue)
         /\ present_queue' = <<>>
         /\ pc_c' = "ret_frame"

\* Mutant: a call that times out returns no frame.
TryGetPresentFrame_Body_NullOnTimeout ==
    IF present_queue = <<>>
    THEN /\ present_ret' = NullFrame
         /\ pc_c' = "ret_previous"
         /\ UNCHANGED <<free_queue, present_queue, previous_frame>>
    ELSE /\ free_queue' =
                free_queue
                \o (IF previous_frame # NullFrame
                    THEN <<previous_frame>> ELSE <<>>)
                \o Tail(present_queue)
         /\ present_ret' = Head(present_queue)
         /\ previous_frame' = Head(present_queue)
         /\ present_queue' = <<>>
         /\ pc_c' = "ret_frame"

\* TryGetPresentFrame after wait_for has returned: present_ret is the value
\* returned, pc_c the return statement taken.
TryGetPresentFrame_Body ==
    IF present_queue = <<>>
    THEN /\ present_ret' = previous_frame
         /\ pc_c' = "ret_previous"
         /\ UNCHANGED <<free_queue, present_queue, previous_frame>>
    ELSE /\ free_queue' =
                free_queue
                \o (IF previous_frame # NullFrame
                    THEN <<previous_frame>> ELSE <<>>)
                \o Tail(present_queue)
         /\ present_ret' = Head(present_queue)
         /\ previous_frame' = Head(present_queue)
         /\ present_queue' = <<>>
         /\ pc_c' = "ret_frame"

\* TryGetPresentFrame(timeout): wait_for returns at once when the predicate
\* holds or the timeout is zero; otherwise the consumer blocks.
TryGetPresentFrame_Call ==
    \E timeout \in Timeouts :
        /\ pc_c = "idle"
        /\ IF present_queue # <<>> \/ timeout = 0
           THEN TryGetPresentFrame_Body
           ELSE /\ pc_c' = "present_wait"
                /\ UNCHANGED <<free_queue, present_queue, previous_frame,
                               present_ret>>
        /\ UNCHANGED <<pc_r, render_frame, last_released>>
        /\ MailboxFrame

\* The notified consumer re-acquires the lock and re-evaluates the predicate;
\* the producer may have taken the frame back in between.
TryGetPresentFrame_Woken ==
    /\ pc_c = "present_woken"
    /\ IF present_queue # <<>>
       THEN TryGetPresentFrame_Body
       ELSE /\ pc_c' = "present_wait"
            /\ UNCHANGED <<free_queue, present_queue, previous_frame,
                           present_ret>>
    /\ UNCHANGED <<pc_r, render_frame, last_released>>
    /\ MailboxFrame

\* The timeout expires: wait_for returns whatever the predicate holds.
TryGetPresentFrame_Timeout ==
    /\ pc_c \in {"present_wait", "present_woken"}
    /\ TryGetPresentFrame_Body
    /\ UNCHANGED <<pc_r, render_frame, last_released>>
    /\ MailboxFrame

\* The caller is done with the call's result.
TryGetPresentFrame_Return ==
    /\ pc_c \in {"ret_previous", "ret_frame"}
    /\ pc_c' = "idle"
    /\ UNCHANGED <<free_queue, present_queue, previous_frame, present_ret,
                   pc_r, render_frame, last_released>>
    /\ MailboxFrame

NextMailbox ==
    \/ GetRenderFrame /\ UNCHANGED present_vars
    \/ ReleaseRenderFrame /\ UNCHANGED present_vars
    \/ TryGetPresentFrame_Call /\ UNCHANGED present_vars
    \/ TryGetPresentFrame_Woken /\ UNCHANGED present_vars
    \/ TryGetPresentFrame_Timeout /\ UNCHANGED present_vars
    \/ TryGetPresentFrame_Return /\ UNCHANGED present_vars

SpecMailbox == Init /\ [][NextMailbox]_vars

\* ===================================================================
\* Properties of the mailbox
\* ===================================================================
\* A TryGetPresentFrame call completes in this step.
TryGetCompletes ==
    /\ pc_c \notin {"ret_previous", "ret_frame"}
    /\ pc_c' \in {"ret_previous", "ret_frame"}

PreviousAsSeq ==
    IF previous_frame # NullFrame THEN <<previous_frame>> ELSE <<>>

\* C9: a TryGetPresentFrame call that finds the present queue non-empty
\* returns the frame most recently passed to ReleaseRenderFrame, which is the
\* newest one queued, moves the previously displayed frame and every other
\* queued frame to the free queue and leaves the present queue empty.
C9_ReturnsNewestFrame ==
    [][(TryGetCompletes /\ present_queue # <<>>)
       => /\ pc_c' = "ret_frame"
          /\ present_ret' = last_released
          /\ present_ret' = Head(present_queue)
          /\ present_queue' = <<>>
          /\ free_queue' = free_queue \o PreviousAsSeq \o Tail(present_queue)
      ]_vars

\* Frame 3 is returned; frame 1, shown before, and the superseded frame 2
\* are back in the free queue.
C9_Witness ==
    /\ pc_c = "ret_frame"
    /\ present_ret = 3
    /\ free_queue = <<4, 1, 2>>
    /\ present_queue = <<>>

\* A call that returns before the first ReleaseRenderFrame returns null.
C10_NullBeforeFirstRelease ==
    (pc_c \in {"ret_previous", "ret_frame"} /\ last_released = NullFrame)
    => present_ret = NullFrame

\* C10: TryGetPresentFrame returns no frame while the producer has never
\* released one; once it has returned a frame, a call that ends on an empty
\* present queue returns that frame again and changes neither queue.
C10_RepeatsPreviousFrame ==
    /\ []C10_NullBeforeFirstRelease
    /\ [][(TryGetCompletes /\ present_queue = <<>> /\ present_ret # NullFrame)
          => /\ pc_c' = "ret_previous"
             /\ present_ret' = present_ret
             /\ UNCHANGED <<free_queue, present_queue, previous_frame>>
         ]_vars

\* A call has timed out and returned the frame shown before.
C10_Witness ==
    /\ pc_c = "ret_previous"
    /\ present_ret # NullFrame
    /\ present_ret = previous_frame

\* GetRenderFrame is about to be called with a frame available.
C11_NeverBothEmpty ==
    pc_r = "idle" => (free_queue # <<>> \/ present_queue # <<>>)

\* C11: GetRenderFrame never waits for the consumer: called by a producer
\* that alternates GetRenderFrame and ReleaseRenderFrame, whatever the
\* consumer does, it finds the free queue or the present queue non-empty, it
\* can complete at once, and it returns the front of the free queue when
\* that queue is non-empty and otherwise removes and returns the back
\* (oldest entry) of the present queue.
C11_GetRenderFrameNeverWaits ==
    /\ [](C11_NeverBothEmpty /\ (pc_r = "idle" => ENABLED GetRenderFrame))
    /\ [][(pc_r = "idle" /\ pc_r' = "rendering")
          => IF free_queue # <<>>
             THEN /\ render_frame' = Head(free_queue)
                  /\ free_queue' = Tail(free_queue)
                  /\ present_queue' = present_queue
             ELSE /\ render_frame' = present_queue[Len(present_queue)]
                  /\ present_queue' =
                         SubSeq(present_queue, 1, Len(present_queue) - 1)
                  /\ free_queue' = free_queue
         ]_vars

\* Four frames were released without a consumer; the fifth GetRenderFrame
\* took the oldest, frame 1, from the back of the present queue.
C11_Witness ==
    /\ pc_r = "rendering"
    /\ render_frame = 1
    /\ free_queue = <<>>
    /\ present_queue = <<4, 3, 2>>
    /\ previous_frame = NullFrame

\* The places a pool frame can be in, one after the other.
FramePlaces ==
    free_queue \o present_queue
    \o (IF render_frame # NullFrame THEN <<render_frame>> ELSE <<>>)
    \o PreviousAsSeq

\* C12: each of the SWAP_CHAIN_SIZE pool frames is in exactly one place: the
\* free queue, the present queue, held by the producer between
\* GetRenderFrame and ReleaseRenderFrame, or previous_frame, the frame last
\* returned to the consumer; the frame the producer holds is never the one
\* the consumer was last given.
C12_EachFrameInOnePlace ==
    /\ Len(FramePlaces) = SWAP_CHAIN_SIZE
    /\ {FramePlaces[i] : i \in 1..Len(FramePlaces)} = Frames
    /\ (pc_r = "rendering") = (render_frame # NullFrame)
    /\ present_ret \in {NullFrame, previous_frame}
    /\ pc_r = "rendering" => render_frame \notin {previous_frame, present_ret}

\* The producer holds frame 1 again while the consumer shows frame 2 and
\* frame 3 is queued.
C12_Witness ==
    /\ pc_r = "rendering"
    /\ render_frame = 1
    /\ previous_frame = 2
    /\ present_queue = <<3>>
    /\ free_queue = <<4>>

\* ===================================================================
\* RendererOpenGL::SwapBuffers and VideoPresentation::Present around the
\* mailbox: the render and present fences of the frames
\* ===================================================================
\* frame = render_window.mailbox->GetRenderFrame();
SwapBuffers_GetRenderFrame ==
    /\ pc_s = "get"
    /\ GetRenderFrame
    /\ pc_s' = "sync"
    /\ UNCHANGED <<render_fence, present_fence, rendered, waited_fence,
                   destroyed>>

\* "Clean up sync objects before drawing": the present fence is waited for
\* and deleted, the render fence of the frame's previous rendering deleted.
SwapBuffers_CleanSyncObjects ==
    /\ pc_s = "sync"
    /\ render_fence' = [render_fence EXCEPT ![render_frame] = 0]
    /\ present_fence' = [present_fence EXCEPT ![render_frame] = 0]
    /\ pc_s' = "blit"
    /\ UNCHANGED <<rendered, waited_fence, destroyed, gpu_vars, mailbox_vars,
                   ccm_vars, core_vars, ui_vars>>

\* The three screens are blitted into the frame: its textures now hold a
\* new rendering (numbered 1 and 2 in turn).
SwapBuffers_Blit ==
    /\ pc_s = "blit"
    /\ rendered' = [rendered EXCEPT ![render_frame] = IF @ = 1 THEN 2 ELSE 1]
    /\ pc_s' = "fence"
    /\ UNCHANGED <<render_fence, present_fence, waited_fence, destroyed,
                   gpu_vars, mailbox_vars, ccm_vars, core_vars, ui_vars>>

\* Mutant: no fence is created after the blits.
SwapBuffers_FenceSync_Skipped ==
    /\ pc_s = "fence"
    /\ pc_s' = "release"
    /\ UNCHANGED <<render_fence, rendered, present_fence, waited_fence,
                   destroyed, gpu_vars, mailbox_vars, ccm_vars, core_vars,
                   ui_vars>>

\* frame->render_fence = glFenceSync(...); glFlush();  The fence stands for
\* the rendering just issued.
SwapBuffers_FenceSync ==
    /\ pc_s = "fence"
    /\ render_fence' =
           [render_fence EXCEPT ![render_frame] = rendered[render_frame]]
    /\ pc_s' = "release"
    /\ UNCHANGED <<rendered, present_fence, waited_fence, destroyed,
                   gpu_vars, mailbox_vars, ccm_vars, core_vars, ui_vars>>

\* render_window.mailbox->ReleaseRenderFrame(frame);
SwapBuffers_ReleaseRenderFrame ==
    /\ pc_s = "release"
    /\ ReleaseRenderFrame
    /\ pc_s' = "get"
    /\ UNCHANGED <<render_fence, present_fence, rendered, waited_fence,
                   destroyed>>

\* auto frame = mailbox->TryGetPresentFrame(0ms): with a zero timeout
\* wait_for returns the predicate at once.
Present_TryGetPresentFrame ==
    /\ pc_c = "idle"
    /\ TryGetPresentFrame_Body
    /\ UNCHANGED <<pc_r, render_frame, last_released, present_vars>>
    /\ MailboxFrame

\* if (!frame) return;
Present_NoFrame ==
    /\ pc_c \in {"ret_previous", "ret_frame"}
    /\ present_ret = NullFrame
    /\ pc_c' = "idle"
    /\ UNCHANGED <<free_queue, present_queue, previous_frame, present_ret,
                   pc_r, render_frame, last_released, present_vars>>
    /\ MailboxFrame

\* glWaitSync(frame->render_fence, 0, GL_TIMEOUT_IGNORED);
Present_WaitSync ==
    /\ pc_c \in {"ret_previous", "ret_frame"}
    /\ present_ret # NullFrame
    /\ waited_fence' = render_fence[present_ret]
    /\ pc_c' = "draw"
    /\ UNCHANGED <<free_queue, present_queue, previous_frame, present_ret,
                   pc_r, render_frame, last_released, render_fence,
                   present_fence, rendered, pc_s, destroyed>>
    /\ MailboxFrame

\* impl->DrawScreens(layout, *frame); osd.Render();
Present_DrawScreens ==
    /\ pc_c = "draw"
    /\ pc_c' = "present_fence"
    /\ UNCHANGED <<free_queue, present_queue, previous_frame, present_ret,
                   pc_r, render_frame, last_released, present_vars>>
    /\ MailboxFrame

\* frame->present_fence = glFenceSync(...); glFlush();
Present_FenceSync ==
    /\ pc_c = "present_fence"
    /\ present_fence' = [present_fence EXCEPT ![present_ret] = 1]
    /\ pc_c' = "idle"
    /\ UNCHANGED <<free_queue, present_queue, previous_frame, present_ret,
                   pc_r, render_frame, last_released, render_fence, rendered,
                   pc_s, waited_fence, destroyed>>
    /\ MailboxFrame

NextPresent ==
    \/ SwapBuffers_GetRenderFrame
    \/ SwapBuffers_CleanSyncObjects
    \/ SwapBuffers_Blit
    \/ SwapBuffers_FenceSync
    \/ SwapBuffers_ReleaseRenderFrame
    \/ Present_TryGetPresentFrame
    \/ Present_NoFrame
    \/ Present_WaitSync
    \/ Present_DrawScreens
    \/ Present_FenceSync

SpecPresent == Init /\ [][NextPresent]_vars

\* ===================================================================
\* Tearing down the mailbox
\* ===================================================================
\* ~OGLTextureMailbox: under swap_chain_lock both queues are emptied and
\* present_cv.notify_all() wakes the consumer blocked in wait_for.  The
\* renderer that produced into the mailbox is gone by then.
Destructor ==
    /\ ~destroyed
    /\ pc_r = "idle"
    /\ free_queue' = <<>>
    /\ present_queue' = <<>>
    /\ pc_c' = IF pc_c = "present_wait" THEN "present_woken" ELSE pc_c
    /\ destroyed' = TRUE
    /\ UNCHANGED <<previous_frame, pc_r, render_frame, present_ret,
                   last_released, render_fence, present_fence, rendered,
                   pc_s, waited_fence>>
    /\ MailboxFrame

\* No call is started on a mailbox that has been torn down; a call in
\* flight goes on.
NextTeardown ==
    \/ ~destroyed /\ GetRenderFrame /\ UNCHANGED present_vars
    \/ ~destroyed /\ ReleaseRenderFrame /\ UNCHANGED present_vars
    \/ ~destroyed /\ TryGetPresentFrame_Call /\ UNCHANGED present_vars
    \/ TryGetPresentFrame_Woken /\ UNCHANGED present_vars
    \/ TryGetPresentFrame_Timeout /\ UNCHANGED present_vars
    \/ TryGetPresentFrame_Return /\ UNCHANGED present_vars
    \/ Destructor

SpecTeardown == Init /\ [][NextTeardown]_vars

\* C13: tearing down the mailbox releases a consumer blocked in
\* TryGetPresentFrame, so that it returns without waiting out its timeout,
\* and leaves the free queue and the present queue empty: once the
\* destructor has run no consumer is blocked in wait_for and both queues are
\* empty.
C13_TeardownReleasesConsumer ==
    destroyed => /\ pc_c # "present_wait"
                 /\ free_queue = <<>>
                 /\ present_queue = <<>>

\* A frame has a render fence for the rendering its textures hold.
HasRenderFence(f) ==
    render_fence[f] # 0 /\ render_fence[f] = rendered[f]

\* C14: every frame in the present queue, and every frame TryGetPresentFrame
\* has returned to Present, has a render fence created by SwapBuffers for
\* its latest rendering, and Present draws the frame only after waiting on
\* that fence.
C14_FenceBeforePresent ==
    /\ \A i \in 1..Len(present_queue) : HasRenderFence(present_queue[i])
    /\ (pc_c \in {"ret_previous", "ret_frame", "draw", "present_fence"}
        /\ present_ret # NullFrame)
       => HasRenderFence(present_ret)
    /\ pc_c \in {"draw", "present_fence"}
       => (waited_fence # 0 /\ waited_fence = rendered[present_ret])

\* Present is about to draw a frame that has been rendered for the second
\* time and has waited on the fence of that rendering.
C14_Witness ==
    /\ pc_c = "draw"
    /\ rendered[present_ret] = 2
    /\ waited_fence = 2

\* ===================================================================
\* threeds_ccm_encrypt_and_tag / threeds_ccm_auth_decrypt
\* ===================================================================
CCM_ENCRYPT == 0
CCM_DECRYPT == 1
AES_BLOCK_SIZE == 16
MBEDTLS_ERR_CCM_BAD_INPUT == -13
MBEDTLS_ERR_CCM_AUTH_FAILED == -15

\* Bitwise operations on unsigned char values.
RECURSIVE BitOp(_, _, _, _)
BitOp(op, a, b, n) ==
    IF n = 0
    THEN 0
    ELSE LET x == a % 2
             y == b % 2
             bit == IF op = "xor" THEN (x + y) % 2
                    ELSE IF x + y > 0 THEN 1 ELSE 0
         IN  bit + 2 * BitOp(op, a \div 2, b \div 2, n - 1)
Xor(a, b) == BitOp("xor", a, b, 8)
Or(a, b) == BitOp("or", a, b, 8)

\* v >> (8 * n)
RECURSIVE ShiftRight8(_, _)
ShiftRight8(v, n) == IF n = 0 THEN v ELSE ShiftRight8(v \div 256, n - 1)

\* Buffers are sequences: C index i is position i + 1.
Zeros(n) == [i \in 1..n |-> 0]
\* std::memset(b, 0, 16); std::memcpy(b, src, use_len);
PadBlock(bytes) == bytes \o Zeros(16 - Len(bytes))

\* The bytes behind the iv, add and input pointers.
IvByte(i) == 16 + i
AddByte(i) == (160 + 3 * i) % 256
InputByte(i) == 1 + ((7 * i) % 250)
Plaintext(length) == [i \in 1..length |-> InputByte(i - 1)]

\* mbedtls_cipher_update(&ctx->cipher_ctx, in, 16, out, &olen) on a context
\* keyed for one-block encryption: a keyed permutation of 16-byte blocks
\* stands for AES.
CipherUpdate(key, x) ==
    [i \in 1..16 |-> (x[(i % 16) + 1] + key + 31 * i) % 256]

\* UPDATE_CBC_MAC: y ^= b; y = E(y)
UpdateCbcMac(key, y, b) ==
    CipherUpdate(key, [i \in 1..16 |-> Xor(y[i], b[i])])

\* Common::AlignUp(value, size)
AlignUp(value, size) == value + ((size - (value % size)) % size)

\* Mutant: the exact length is written into B_0.
LengthField_Exact(length) == length

\* len_left = Common::AlignUp(length, AES_BLOCK_SIZE), the value written
\* into the length field of B_0.
LengthField(length) == AlignUp(length, AES_BLOCK_SIZE)

\* First block B_0: flags, nonce, length.  tag_len - 2 is computed in
\* size_t and only the low byte of the shifted value reaches b[0], so the
\* tag field is taken modulo 64 before halving.
FirstBlock(in) ==
    LET q == 15 - in.iv_len
        flags == Or(Or(IF in.add_len > 0 THEN 64 ELSE 0,
                       ((((in.tag_len - 2) % 64) \div 2) * 8) % 256),
                    q - 1)
    IN  [p \in 1..16 |->
            IF p = 1 THEN flags
            ELSE IF p <= in.iv_len + 1 THEN IvByte(p - 2)
            ELSE ShiftRight8(LengthField(in.length), 16 - p) % 256]

\* The blocks of associated data after the first.
RECURSIVE MacAddBlocks(_, _, _, _)
MacAddBlocks(key, y, offset, len_left) ==
    IF len_left = 0
    THEN y
    ELSE LET use_len == IF len_left > 16 THEN 16 ELSE len_left
             b == PadBlock([i \in 1..use_len |-> AddByte(offset + i - 1)])
         IN  MacAddBlocks(key, UpdateCbcMac(key, y, b), offset + use_len,
                          len_left - use_len)

\* if (add_len > 0): CBC-MAC over add_len (two bytes), add, zero padding.
MacAssociatedData(key, y, add_len) ==
    IF add_len = 0
    THEN y
    ELSE LET use_len == IF add_len < 14 THEN add_len ELSE 14
             b == PadBlock(<<(add_len \div 256) % 256, add_len % 256>>
                           \o [i \in 1..use_len |-> AddByte(i - 1)])
         IN  MacAddBlocks(key, UpdateCbcMac(key, y, b), use_len,
                          add_len - use_len)

\* Number of mbedtls_cipher_update calls made for the associated data.
AddBlockCount(add_len) ==
    IF add_len = 0 THEN 0
    ELSE 1 + (IF add_len <= 14 THEN 0 ELSE (add_len - 14 + 15) \div 16)

\* Counter block: flags, nonce, q counter bytes holding `low`.
CounterBlock(in, low) ==
    [p \in 1..16 |->
        IF p = 1 THEN 15 - in.iv_len - 1
        ELSE IF p <= in.iv_len + 1 THEN IvByte(p - 2)
        ELSE IF p = 16 THEN low ELSE 0]

\* for (i = 0; i < q; i++) if (++ctr[15 - i] != 0) break;
RECURSIVE IncrementCounter(_, _, _)
IncrementCounter(ctr, i, q) ==
    IF i >= q
    THEN ctr
    ELSE LET v == (ctr[16 - i] + 1) % 256
             c == [ctr EXCEPT ![16 - i] = v]
         IN  IF v # 0 THEN c ELSE IncrementCounter(c, i + 1, q)

\* Mutant: decryption authenticates the bytes it read, not those it wrote.
MacInput_AlwaysSource(mode, src, dst) == src

\* The bytes copied into b for UPDATE_CBC_MAC: src when encrypting (before
\* CTR_CRYPT), dst when decrypting (after it).
MacInput(mode, src, dst) == IF mode = CCM_ENCRYPT THEN src ELSE dst

\* while (len_left > 0): authenticate and CTR-crypt one block of at most 16
\* bytes, then increment the counter.
RECURSIVE CryptLoop(_, _, _, _, _, _, _, _)
CryptLoop(mode, key, q, input, offset, y, ctr, out) ==
    IF offset >= Len(input)
    THEN [y |-> y, out |-> out]
    ELSE LET len_left == Len(input) - offset
             use_len == IF len_left > 16 THEN 16 ELSE len_left
             src == SubSeq(input, offset + 1, offset + use_len)
             b == CipherUpdate(key, ctr)
             dst == [i \in 1..use_len |-> Xor(src[i], b[i])]
             y2 == UpdateCbcMac(key, y, PadBlock(MacInput(mode, src, dst)))
         IN  CryptLoop(mode, key, q, input, offset + use_len, y2,
                       IncrementCounter(ctr, 0, q), out \o dst)

\* The call returned MBEDTLS_ERR_CCM_BAD_INPUT before any cipher operation.
BadInput == [NoResult EXCEPT !.ret = MBEDTLS_ERR_CCM_BAD_INPUT]

\* threeds_auth_crypt.  The result holds the return value, the bytes written
\* to output and to tag, B_0 as written, and the number of
\* mbedtls_cipher_update calls.
threeds_auth_crypt(mode, in, input) ==
    IF in.tag_len = 2 \/ in.tag_len > 16 \/ in.tag_len % 2 # 0 THEN BadInput
    ELSE IF in.iv_len < 7 \/ in.iv_len > 13 THEN BadInput
    ELSE IF in.add_len > 65280 THEN BadInput
    ELSE
        LET q == 15 - in.iv_len
            b0 == FirstBlock(in)
        IN  IF ShiftRight8(LengthField(in.length), q) > 0
            THEN [BadInput EXCEPT !.b0 = b0]
            ELSE
                LET y0 == UpdateCbcMac(in.key, Zeros(16), b0)
                    y1 == MacAssociatedData(in.key, y0, in.add_len)
                    r == CryptLoop(mode, in.key, q, input, 0, y1,
                                   CounterBlock(in, 1), <<>>)
                    b == CipherUpdate(in.key, CounterBlock(in, 0))
                    y == [i \in 1..16 |-> Xor(r.y[i], b[i])]
                IN  [ret |-> 0,
                     output |-> r.out,
                     tag |-> SubSeq(y, 1, in.tag_len),
                     b0 |-> b0,
                     cipher_ops |-> 2 + AddBlockCount(in.add_len)
                                      + 2 * ((in.length + 15) \div 16)]

\* threeds_ccm_encrypt_and_tag
threeds_ccm_encrypt_and_tag(in, input) ==
    IF in.tag_len = 0
    THEN BadInput
    ELSE threeds_auth_crypt(CCM_ENCRYPT, in, input)

\* Mutant: the output is left as decrypted.
mbedtls_platform_zeroize_Skipped(buf, len) == buf

\* mbedtls_platform_zeroize(output, length)
mbedtls_platform_zeroize(buf, len) == Zeros(len)

\* for (diff = 0, i = 0; i < tag_len; i++) diff |= tag[i] ^ check_tag[i];
RECURSIVE TagDiff(_, _, _)
TagDiff(tag, check_tag, n) ==
    IF n = 0
    THEN 0
    ELSE Or(TagDiff(tag, check_tag, n - 1), Xor(tag[n], check_tag[n]))

\* threeds_ccm_auth_decrypt; the result's tag is check_tag.
threeds_ccm_auth_decrypt(in, input, tag) ==
    LET r == threeds_auth_crypt(CCM_DECRYPT, in, input)
    IN  IF r.ret # 0
        THEN r
        ELSE IF TagDiff(tag, r.tag, in.tag_len) # 0
        THEN [r EXCEPT !.ret = MBEDTLS_ERR_CCM_AUTH_FAILED,
                       !.output = mbedtls_platform_zeroize(r.output, in.length)]
        ELSE r

CcmFrame ==
    UNCHANGED <<gpu_vars, mailbox_vars, present_vars, core_vars, ui_vars>>

\* The caller encrypts the plaintext.
Ccm_Encrypt ==
    /\ ccm_pc = "start"
    /\ ccm_enc' = threeds_ccm_encrypt_and_tag(ccm_in, Plaintext(ccm_in.length))
    /\ ccm_pc' = "encrypted"
    /\ UNCHANGED <<ccm_in, ccm_given, ccm_dec>>
    /\ CcmFrame

\* What reaches the receiver: the ciphertext and tag as produced, or with
\* one byte changed.  A caller whose encryption failed passes its buffers
\* as they are.
Tampers == {"none", "tag_first", "tag_last", "data"}
Sent ==
    IF ccm_enc.ret = 0
    THEN [input |-> ccm_enc.output, tag |-> ccm_enc.tag]
    ELSE [input |-> Plaintext(ccm_in.length), tag |-> Zeros(ccm_in.tag_len)]
Flip(bytes, n) == [bytes EXCEPT ![n] = (@ + 1) % 256]
Received(tamper) ==
    CASE tamper = "none" -> Sent
      [] tamper = "tag_first" -> [Sent EXCEPT !.tag = Flip(@, 1)]
      [] tamper = "tag_last" -> [Sent EXCEPT !.tag = Flip(@, Len(@))]
      [] tamper = "data" -> [Sent EXCEPT !.input = Flip(@, 1)]

\* The receiver decrypts and verifies what it was given.
Ccm_Decrypt ==
    \E tamper \in Tampers :
        /\ ccm_pc = "encrypted"
        /\ tamper \in {"tag_first", "tag_last"} => ccm_in.tag_len > 0
        /\ tamper = "data" => (ccm_in.length > 0 /\ ccm_enc.ret = 0)
        /\ ccm_given' = Received(tamper)
        /\ ccm_dec' = threeds_ccm_auth_decrypt(ccm_in, ccm_given'.input,
                                               ccm_given'.tag)
        /\ ccm_pc' = "decrypted"
        /\ UNCHANGED <<ccm_in, ccm_enc>>
        /\ CcmFrame

NextCcm ==
    \/ Ccm_Encrypt
    \/ Ccm_Decrypt

SpecCcm == InitCcm /\ [][NextCcm]_vars

\* ------------------------------------------------ properties of the CCM
\* The tag lengths, and the other argument ranges, the interface accepts.
AcceptedTagLengths == {4, 6, 8, 10, 12, 14, 16}
InvalidArgs(in) ==
    \/ in.tag_len \notin AcceptedTagLengths
    \/ in.iv_len \notin 7..13
    \/ in.add_len > 65280
\* The plaintext length rounded up to a multiple of 16, and whether a value
\* fits q bytes (every length of the model fits four bytes or more).
RoundedLength(length) == 16 * ((length + 15) \div 16)
FitsBytes(v, q) == q >= 4 \/ v < (IF q = 2 THEN 65536 ELSE 16777216)
RoundedFits(in) == FitsBytes(RoundedLength(in.length), 15 - in.iv_len)
\* auth_decrypt was given exactly what encrypt_and_tag produced.
Untampered ==
    ccm_given = [input |-> ccm_enc.output, tag |-> ccm_enc.tag]
Rejected(r) == r.ret = MBEDTLS_ERR_CCM_BAD_INPUT /\ r.cipher_ops = 0

\* C15: for every key, nonce length in 7..13, associated data, tag length in
\* {4,6,..,16} and plaintext whose rounded length fits the counter field,
\* threeds_ccm_auth_decrypt applied to the ciphertext and tag that
\* threeds_ccm_encrypt_and_tag produced with the same key, nonce and
\* associated data returns 0 and reproduces the plaintext.  (Encryption
\* produces nothing for associated data longer than 0xFF00 bytes.)
C15_RoundTrip ==
    (/\ ccm_pc = "decrypted"
     /\ ccm_in.iv_len \in 7..13
     /\ ccm_in.tag_len \in AcceptedTagLengths
     /\ RoundedFits(ccm_in)
     /\ ccm_enc.ret = 0
     /\ Untampered)
    => /\ ccm_dec.ret = 0
       /\ ccm_dec.output = Plaintext(ccm_in.length)

\* 33 bytes (two blocks and one byte) with 20 bytes of associated data and
\* an 8-byte tag came back; the ciphertext differs from the plaintext.
C15_Witness ==
    /\ ccm_pc = "decrypted"
    /\ Untampered
    /\ ccm_in.length = 33
    /\ ccm_in.add_len = 20
    /\ ccm_in.tag_len = 8
    /\ ccm_enc.output # Plaintext(33)
    /\ ccm_dec.ret = 0
    /\ ccm_dec.output = Plaintext(33)

C17_BadInputRejected ==
    InvalidArgs(ccm_in)
    => /\ ccm_pc \in {"encrypted", "decrypted"} => Rejected(ccm_enc)
       /\ ccm_pc = "decrypted" => Rejected(ccm_dec)

\* The value of the big-endian bytes.
RECURSIVE BigEndian(_)
BigEndian(bytes) ==
    IF bytes = <<>>
    THEN 0
    ELSE 256 * BigEndian(SubSeq(bytes, 1, Len(bytes) - 1)) + bytes[Len(bytes)]

\* The calls made so far with arguments that pass the other checks.
CallsWithLengthCheck ==
    IF InvalidArgs(ccm_in) THEN {}
    ELSE (IF ccm_pc \in {"encrypted", "decrypted"} THEN {ccm_enc} ELSE {})
         \cup (IF ccm_pc = "decrypted" THEN {ccm_dec} ELSE {})

\* C18: the length field in the last q = 15 - nonce_len bytes of B_0 is the
\* big-endian encoding of the plaintext length rounded up to a multiple of
\* 16, and the call fails with MBEDTLS_ERR_CCM_BAD_INPUT before any cipher
\* operation exactly when the rounded length does not fit q bytes.
C18_LengthFieldRounded ==
    \A r \in CallsWithLengthCheck :
        /\ Rejected(r) <=> ~RoundedFits(ccm_in)
        /\ RoundedFits(ccm_in)
           => BigEndian(SubSeq(r.b0, ccm_in.iv_len + 2, 16))
                  = RoundedLength(ccm_in.length)

\* 65521 fits two bytes, its rounding 65536 does not: the call is rejected.
C18_Witness ==
    /\ ccm_pc = "encrypted"
    /\ ccm_in.length = 65521
    /\ ccm_in.iv_len = 13
    /\ ccm_in.tag_len = 4
    /\ ccm_enc.ret = MBEDTLS_ERR_CCM_BAD_INPUT
    /\ ccm_enc.cipher_ops = 0

\* ===================================================================
\* VideoCore::Init / Shutdown and VideoCore::RequestScreenshot
\* ===================================================================
CoreFrame ==
    UNCHANGED <<gpu_vars, mailbox_vars, present_vars, ccm_vars, ui_vars>>

\* g_renderer = std::make_unique<OpenGL::RendererOpenGL>(emu_window);
VideoCore_Init_MakeRenderer ==
    /\ vc_pc = "uninit"
    /\ g_renderer' = TRUE
    /\ vc_pc' = "init_gpu_thread"
    /\ UNCHANGED <<g_gpu_thread, screenshot_vars>>
    /\ CoreFrame

\* if (use_asynchronous_gpu_emulation)
\*     g_gpu_thread = std::make_unique<ThreadManager>(*g_renderer);
VideoCore_Init_MakeGpuThread ==
    /\ vc_pc = "init_gpu_thread"
    /\ g_gpu_thread' = use_async
    /\ vc_pc' = "init_renderer"
    /\ UNCHANGED <<g_renderer, screenshot_vars>>
    /\ CoreFrame

\* g_renderer->Init(); return result;
VideoCore_Init_Renderer ==
    /\ vc_pc = "init_renderer"
    /\ vc_pc' = "running"
    /\ UNCHANGED <<g_renderer, g_gpu_thread, screenshot_vars>>
    /\ CoreFrame

\* Shutdown: Pica::Shutdown(); g_renderer.reset();
VideoCore_Shutdown_ResetRenderer ==
    /\ vc_pc = "running"
    /\ g_renderer' = FALSE
    /\ vc_pc' = "shutdown_gpu_thread"
    /\ UNCHANGED <<g_gpu_thread, screenshot_vars>>
    /\ CoreFrame

\* g_gpu_thread.reset();  (The progress of ~ThreadManager itself is the
\* subject of Destructor_Exchange and Destructor_Join.)
VideoCore_Shutdown_ResetGpuThread ==
    /\ vc_pc = "shutdown_gpu_thread"
    /\ g_gpu_thread' = FALSE
    /\ vc_pc' = "uninit"
    /\ UNCHANGED <<g_renderer, screenshot_vars>>
    /\ CoreFrame

\* RequestScreenshot is four plain stores between a load and a store of the
\* atomic flag; each access is a step of its caller.  Caller c passes the
\* buffer, callback and layout numbered c.
RequestFrame(c, pc) ==
    /\ req_pc' = [req_pc EXCEPT ![c] = pc]
    /\ UNCHANGED <<g_renderer, g_gpu_thread, vc_pc>>
    /\ CoreFrame

\* if (g_renderer_screenshot_requested) { LOG_ERROR(...); return; }
RequestScreenshot_CheckFlag ==
    \E c \in Callers :
        /\ req_pc[c] = "idle"
        /\ RequestFrame(c, IF g_renderer_screenshot_requested
                           THEN "rejected" ELSE "store_bits")
        /\ UNCHANGED <<g_renderer_screenshot_requested, g_screenshot_bits,
                       g_screenshot_complete_callback,
                       g_screenshot_framebuffer_layout, accepted>>

\* The rejected call returns.
RequestScreenshot_Rejected ==
    \E c \in Callers :
        /\ req_pc[c] = "rejected"
        /\ RequestFrame(c, "idle")
        /\ UNCHANGED <<g_renderer_screenshot_requested, g_screenshot_bits,
                       g_screenshot_complete_callback,
                       g_screenshot_framebuffer_layout, accepted>>

\* g_screenshot_bits = data;
RequestScreenshot_StoreBits ==
    \E c \in Callers :
        /\ req_pc[c] = "store_bits"
        /\ g_screenshot_bits' = c
        /\ RequestFrame(c, "store_callback")
        /\ UNCHANGED <<g_renderer_screenshot_requested,
                       g_screenshot_complete_callback,
                       g_screenshot_framebuffer_layout, accepted>>

\* g_screenshot_complete_callback = std::move(callback);
RequestScreenshot_StoreCallback ==
    \E c \in Callers :
        /\ req_pc[c] = "store_callback"
        /\ g_screenshot_complete_callback' = c
        /\ RequestFrame(c, "store_layout")
        /\ UNCHANGED <<g_renderer_screenshot_requested, g_screenshot_bits,
                       g_screenshot_framebuffer_layout, accepted>>

\* g_screenshot_framebuffer_layout = layout;
RequestScreenshot_StoreLayout ==
    \E c \in Callers :
        /\ req_pc[c] = "store_layout"
        /\ g_screenshot_framebuffer_layout' = c
        /\ RequestFrame(c, "set_flag")
        /\ UNCHANGED <<g_renderer_screenshot_requested, g_screenshot_bits,
                       g_screenshot_complete_callback, accepted>>

\* g_renderer_screenshot_requested = true;  The request of c is accepted.
RequestScreenshot_SetFlag ==
    \E c \in Callers :
        /\ req_pc[c] = "set_flag"
        /\ g_renderer_screenshot_requested' = TRUE
        /\ accepted' = accepted \cup {c}
        /\ RequestFrame(c, "idle")
        /\ UNCHANGED <<g_screenshot_bits, g_screenshot_complete_callback,
                       g_screenshot_framebuffer_layout>>

NextVideoCore ==
    \/ VideoCore_Init_MakeRenderer
    \/ VideoCore_Init_MakeGpuThread
    \/ VideoCore_Init_Renderer
    \/ VideoCore_Shutdown_ResetRenderer
    \/ VideoCore_Shutdown_ResetGpuThread
    \/ RequestScreenshot_CheckFlag
    \/ RequestScreenshot_Rejected
    \/ RequestScreenshot_StoreBits
    \/ RequestScreenshot_StoreCallback
    \/ RequestScreenshot_StoreLayout
    \/ RequestScreenshot_SetFlag

SpecVideoCore == Init /\ [][NextVideoCore]_vars

\* C19: VideoCore::Shutdown releases the GPU thread manager before the
\* renderer its worker references, the reverse of the order in which Init
\* constructed them: at no time does the thread manager exist without the
\* renderer.
C19_ShutdownReverseOrder == g_gpu_thread => g_renderer

\* C20: while a screenshot request is pending every further
\* RequestScreenshot call is rejected and leaves the stored buffer,
\* callback and layout unchanged, and for any interleaving of concurrent
\* callers at most one request is accepted per pending period: a pending
\* request is the only accepted one and the stored buffer, callback and
\* layout are its own.
C20_OneRequestPerPendingPeriod ==
    /\ Cardinality(accepted) <= 1
    /\ g_renderer_screenshot_requested
       => \E c \in accepted :
              /\ g_screenshot_bits = c
              /\ g_screenshot_complete_callback = c
              /\ g_screenshot_framebuffer_layout = c

\* ===================================================================
\* ShaderDoubleCache (gl_shader_manager.cpp)
\* ===================================================================
ShaderFrame ==
    UNCHANGED <<gpu_vars, mailbox_vars, present_vars, ccm_vars, core_vars,
                reload_vars, emu_vars,
                osd_vars, conv_vars, late_vars>>

\* CodeGenerator(setup, key): the generated source depends on the key and
\* on the shader setup; it declines some configurations.  Different keys
\* yield the same text (key 1 with setup 2, key 2 with setup 1).
CodeGenerator(setup, key) ==
    IF key = 4 /\ setup = 1 THEN NoProgram ELSE ((key + setup) % 3) + 1

\* Mutant: a declined configuration is not remembered.
CacheFailure_Forgotten(key) == shader_map

\* shader_map[key] = nullptr;
CacheFailure(key) == [shader_map EXCEPT ![key] = NullShader]

\* Mutant: every emplace reports a new element.
EmplaceIsNew_Always(program) == TRUE

\* new_shader of shader_cache.emplace(program, OGLShader{}): the text has
\* no entry yet.
EmplaceIsNew(program) == shader_cache[program] = Absent

\* OGLShader::Create on a fresh OGLShader: the handle is the name the
\* driver hands out, or stays 0 when compilation fails.
Create(ok) == IF ok THEN next_handle ELSE 0

Count(c) == IF c < MaxCount THEN c + 1 ELSE c

\* The bookkeeping of one lookup that returned handle ret.
Returned(key, ret) ==
    /\ first_handle' = IF first_handle[key] = Absent
                       THEN [first_handle EXCEPT ![key] = ret]
                       ELSE first_handle
    /\ lookup' = [key |-> key, handle |-> ret,
                  fresh |-> first_handle[key] = Absent]

\* map_it == shader_map.end() and the generator declines.
Get_GenerationFailed(key, setup) ==
    /\ shader_map[key] = Absent
    /\ CodeGenerator(setup, key) = NoProgram
    /\ generated' = [generated EXCEPT ![key] = Count(@)]
    /\ shader_map' = CacheFailure(key)
    /\ Returned(key, 0)
    /\ UNCHANGED <<shader_cache, next_handle, compiled>>

\* map_it == shader_map.end() and the generator produced a text: the text
\* is looked up in shader_cache, compiled when new, and the key is bound to
\* the cache entry.
Get_Generated(key, setup) ==
    /\ shader_map[key] = Absent
    /\ CodeGenerator(setup, key) # NoProgram
    /\ generated' = [generated EXCEPT ![key] = Count(@)]
    /\ LET program == CodeGenerator(setup, key) IN
       /\ IF EmplaceIsNew(program)
          THEN \E ok \in BOOLEAN :
                   /\ shader_cache' =
                          [shader_cache EXCEPT ![program] = Create(ok)]
                   /\ next_handle' = IF ok THEN next_handle + 1
                                     ELSE next_handle
                   /\ compiled' = [compiled EXCEPT ![program] = Count(@)]
          ELSE UNCHANGED <<shader_cache, next_handle, compiled>>
       /\ shader_map' = [shader_map EXCEPT ![key] = program]
       /\ Returned(key, shader_cache'[program])

\* The key is in shader_map with a null pointer.
Get_CachedFailure(key) ==
    /\ shader_map[key] = NullShader
    /\ Returned(key, 0)
    /\ UNCHANGED <<shader_map, shader_cache, next_handle, generated,
                   compiled>>

\* The key is in shader_map: return map_it->second->handle.
Get_Cached(key) ==
    /\ shader_map[key] \in Programs
    /\ Returned(key, shader_cache[shader_map[key]])
    /\ UNCHANGED <<shader_map, shader_cache, next_handle, generated,
                   compiled>>

NextShader ==
    \/ \E key \in ConfigKeys, setup \in Setups :
           Get_GenerationFailed(key, setup) /\ ShaderFrame
    \/ \E key \in ConfigKeys, setup \in Setups :
           Get_Generated(key, setup) /\ ShaderFrame
    \/ \E key \in ConfigKeys : Get_CachedFailure(key) /\ ShaderFrame
    \/ \E key \in ConfigKeys : Get_Cached(key) /\ ShaderFrame

SpecShader == Init /\ [][NextShader]_vars

\* C21: the code generator runs at most once per configuration key; a
\* lookup of a key that was looked up before returns the handle of the
\* first lookup (0 when generation failed) and neither generates nor
\* compiles.
C21_State ==
    /\ \A k \in ConfigKeys : generated[k] <= 1
    /\ \A k \in ConfigKeys : shader_map[k] = NullShader => first_handle[k] = 0
    /\ lookup.key # Absent => lookup.handle = first_handle[lookup.key]
C21_LaterLookup ==
    \A k \in ConfigKeys :
        first_handle[k] # Absent /\ lookup'.key = k
        => /\ lookup'.handle = first_handle[k]
           /\ generated' = generated
           /\ compiled' = compiled
C21_GeneratedOncePerKey == [](C21_State) /\ [][C21_LaterLookup]_vars
\* A repeated lookup returned a compiled handle while a declined key is
\* cached and has been looked up again too.
C21_Witness ==
    /\ ~lookup.fresh
    /\ lookup.key # Absent
    /\ lookup.handle > 0
    /\ shader_map[4] = NullShader
    /\ generated[4] = 1

\* C22: keys whose generated text is identical get the same handle, and
\* each text is compiled at most once.
C22_SameTextSameHandle ==
    /\ \A p \in Programs : compiled[p] <= 1
    /\ \A k1, k2 \in ConfigKeys :
           shader_map[k1] \in Programs /\ shader_map[k1] = shader_map[k2]
           => first_handle[k1] = first_handle[k2]
C22_Witness ==
    \E k1, k2 \in ConfigKeys :
        /\ k1 # k2
        /\ shader_map[k1] \in Programs
        /\ shader_map[k1] = shader_map[k2]
        /\ first_handle[k1] > 0
        /\ first_handle[k2] = first_handle[k1]
        /\ compiled[shader_map[k1]] = 1

\* ===================================================================
\* OGLTextureMailbox::ReloadRenderFrame / ReloadPresentFrame
\* ===================================================================
ReloadFrame ==
    UNCHANGED <<gpu_vars, mailbox_vars, present_vars, ccm_vars, core_vars,
                shader_vars, emu_vars,
                osd_vars, conv_vars, late_vars>>

\* operator! on a GLenum: the value converts to bool and is negated.
LogicalNot(value) == IF value = 0 THEN 1 ELSE 0

\* !glCheckFramebufferStatus(GL_FRAMEBUFFER) == GL_FRAMEBUFFER_COMPLETE:
\* the negation binds to the call, and its result, promoted to an integer,
\* is compared with the constant.
CheckReportsFailure(status) == LogicalNot(status) = GL_FRAMEBUFFER_COMPLETE

\* LOG_CRITICAL under the check.
LogCritical(status) ==
    critical' = IF CheckReportsFailure(status) THEN Count(critical)
                ELSE critical

ReloadRenderFrame_Call(frame, res_scale) ==
    /\ reload_pc = "idle"
    /\ reload_pc' = "render_fbo"
    /\ reload_arg' = [frame |-> frame, res_scale |-> res_scale, i |-> 0]
    /\ critical' = 0
    /\ incomplete' = FALSE
    /\ UNCHANGED <<frame_res_scale, texture_reloaded, reload_done>>

\* One pass of the second loop: the render FBO of screen i is recreated,
\* its texture allocated and attached, and the framebuffer status checked.
ReloadRenderFrame_Screen(status) ==
    /\ reload_pc = "render_fbo"
    /\ LogCritical(status)
    /\ incomplete' = (incomplete \/ status # GL_FRAMEBUFFER_COMPLETE)
    /\ reload_arg' = [reload_arg EXCEPT !.i = @ + 1]
    /\ reload_pc' = IF reload_arg.i = 2 THEN "render_end" ELSE "render_fbo"
    /\ UNCHANGED <<frame_res_scale, texture_reloaded, reload_done>>

\* prev_state.Apply(); frame->res_scale = res_scale;
\* frame->texture_reloaded = true;
ReloadRenderFrame_End ==
    /\ reload_pc = "render_end"
    /\ frame_res_scale' =
           [frame_res_scale EXCEPT ![reload_arg.frame] = reload_arg.res_scale]
    /\ texture_reloaded' =
           [texture_reloaded EXCEPT ![reload_arg.frame] = TRUE]
    /\ reload_pc' = "idle"
    /\ reload_done' = "render"
    /\ UNCHANGED <<reload_arg, critical, incomplete>>

\* The present FBOs of the three screens are recreated and attached.
ReloadPresentFrame_Call(frame) ==
    /\ reload_pc = "idle"
    /\ reload_pc' = "present_check"
    /\ reload_arg' = [frame |-> frame, res_scale |-> 0, i |-> 3]
    /\ critical' = 0
    /\ incomplete' = FALSE
    /\ UNCHANGED <<frame_res_scale, texture_reloaded, reload_done>>

\* The one status check after the loop.
ReloadPresentFrame_Check(status) ==
    /\ reload_pc = "present_check"
    /\ LogCritical(status)
    /\ incomplete' = (status # GL_FRAMEBUFFER_COMPLETE)
    /\ reload_pc' = "present_end"
    /\ UNCHANGED <<reload_arg, frame_res_scale, texture_reloaded,
                   reload_done>>

\* glBindFramebuffer(GL_DRAW_FRAMEBUFFER, previous_draw_fbo);
\* frame->texture_reloaded = false;
ReloadPresentFrame_End ==
    /\ reload_pc = "present_end"
    /\ texture_reloaded' =
           [texture_reloaded EXCEPT ![reload_arg.frame] = FALSE]
    /\ reload_pc' = "idle"
    /\ reload_done' = "present"
    /\ UNCHANGED <<reload_arg, frame_res_scale, critical, incomplete>>

NextReload ==
    \/ \E frame \in ReloadFrames, res_scale \in ResScales :
           ReloadRenderFrame_Call(frame, res_scale) /\ ReloadFrame
    \/ \E status \in FramebufferStatuses :
           ReloadRenderFrame_Screen(status) /\ ReloadFrame
    \/ ReloadRenderFrame_End /\ ReloadFrame
    \/ \E frame \in ReloadFrames : ReloadPresentFrame_Call(frame) /\ ReloadFrame
    \/ \E status \in FramebufferStatuses :
           ReloadPresentFrame_Check(status) /\ ReloadFrame
    \/ ReloadPresentFrame_End /\ ReloadFrame

SpecReload == Init /\ [][NextReload]_vars

\* C23: a reload during which the framebuffer check reported a status
\* other than complete has logged a Critical record and has run to its
\* end: the frame's res_scale and texture_reloaded are updated.
C23_IncompleteIsLogged ==
    (reload_pc = "idle" /\ reload_done # "none" /\ incomplete)
    => /\ critical > 0
       /\ reload_done = "render"
          => /\ frame_res_scale[reload_arg.frame] = reload_arg.res_scale
             /\ texture_reloaded[reload_arg.frame]
       /\ reload_done = "present" => ~texture_reloaded[reload_arg.frame]
\* The part of C23 that the code keeps: the reload runs to its end
\* whatever the status.
C23_ReloadCompletes ==
    (reload_pc = "idle" /\ reload_done = "render")
    => /\ frame_res_scale[reload_arg.frame] = reload_arg.res_scale
       /\ texture_reloaded[reload_arg.frame]
\* No status at all makes the check log.
C23_NeverLogged == critical = 0

\* ===================================================================
\* EmuThread::run (bootmanager.cpp)
\* ===================================================================
EmuFrame ==
    UNCHANGED <<gpu_vars, mailbox_vars, present_vars, ccm_vars, core_vars,
                shader_vars, reload_vars,
                osd_vars, conv_vars, late_vars>>

\* EmuThread::SetRunning(value): the running flag is written under
\* running_mutex and running_cv is notified.
SetRunning(value) == running' = value

\* Core::System::GetStatusDetails() of a failed run.
StatusDetails == "details"

\* Frontend::ScopeAcquireContext scope(core_context); the disk resources
\* are loaded and the LoadProgress signals emitted.
EmuThread_Start ==
    /\ emu_pc = "start"
    /\ core_context' = TRUE
    /\ emu_pc' = "loop"
    /\ UNCHANGED <<running, exec_step, stop_run, was_active, trace, emitted,
                   last_result>>

\* while (!stop_run) and the choice of the branch.
EmuThread_Loop ==
    /\ emu_pc = "loop"
    /\ emu_pc' = IF stop_run THEN "shutdown"
                 ELSE IF running THEN "runloop"
                 ELSE IF exec_step THEN "step"
                 ELSE "wait"
    /\ UNCHANGED <<running, exec_step, stop_run, was_active, core_context,
                   trace, emitted, last_result>>

\* Mutant: a shutdown request is handled like any other failed run.
EmuThread_RunLoop_ShutdownRequested_AsError ==
    /\ emu_pc = "runloop"
    /\ Len(trace) < MaxRuns
    /\ trace' = Append(trace, "RunLoop")
    /\ last_result' = "ShutdownRequested"
    /\ SetRunning(FALSE)
    /\ emitted' = Append(emitted, [result |-> "ShutdownRequested",
                                   details |-> StatusDetails])
    /\ was_active' = (running' \/ exec_step)
    /\ emu_pc' = "loop"
    /\ UNCHANGED <<exec_step, stop_run, core_context>>

\* Core::System::GetInstance().RunLoop() returned ShutdownRequested:
\* emit ErrorThrown(result, ""); break;
EmuThread_RunLoop_ShutdownRequested ==
    /\ emu_pc = "runloop"
    /\ Len(trace) < MaxRuns
    /\ trace' = Append(trace, "RunLoop")
    /\ last_result' = "ShutdownRequested"
    /\ emitted' = Append(emitted, [result |-> "ShutdownRequested",
                                   details |-> ""])
    /\ emu_pc' = "shutdown"
    /\ UNCHANGED <<running, exec_step, stop_run, was_active, core_context>>

\* RunLoop returned another result; on a failure SetRunning(false) and
\* ErrorThrown with the status details; was_active = running || exec_step.
EmuThread_RunLoop(result) ==
    /\ emu_pc = "runloop"
    /\ result # "ShutdownRequested"
    /\ Len(trace) < MaxRuns
    /\ trace' = Append(trace, "RunLoop")
    /\ last_result' = result
    /\ IF result # "Success"
       THEN /\ SetRunning(FALSE)
            /\ emitted' = Append(emitted, [result |-> result,
                                           details |-> StatusDetails])
       ELSE UNCHANGED <<running, emitted>>
    /\ was_active' = (running' \/ exec_step)
    /\ emu_pc' = "loop"
    /\ UNCHANGED <<exec_step, stop_run, core_context>>

\* exec_step = false; SingleStep(); was_active = false;
EmuThread_SingleStep ==
    /\ emu_pc = "step"
    /\ Len(trace) < MaxRuns
    /\ exec_step' = FALSE
    /\ trace' = Append(trace, "SingleStep")
    /\ was_active' = FALSE
    /\ emu_pc' = "loop"
    /\ UNCHANGED <<running, stop_run, core_context, emitted, last_result>>

\* running_cv.wait(lock, [this] { return IsRunning() || exec_step ||
\* stop_run; });
EmuThread_Wait ==
    /\ emu_pc = "wait"
    /\ running \/ exec_step \/ stop_run
    /\ emu_pc' = "loop"
    /\ UNCHANGED <<running, exec_step, stop_run, was_active, core_context,
                   trace, emitted, last_result>>

\* Mutant: the thread leaves run() without shutting the core down.
EmuThread_Shutdown_Skipped ==
    /\ emu_pc = "shutdown"
    /\ emu_pc' = "exit"
    /\ UNCHANGED <<running, exec_step, stop_run, was_active, core_context,
                   trace, emitted, last_result>>

\* Core::System::GetInstance().Shutdown();
EmuThread_Shutdown ==
    /\ emu_pc = "shutdown"
    /\ trace' = Append(trace, "Shutdown")
    /\ emu_pc' = "exit"
    /\ UNCHANGED <<running, exec_step, stop_run, was_active, core_context,
                   emitted, last_result>>

\* End of run(): the ScopeAcquireContext destructor gives the context up.
EmuThread_Exit ==
    /\ emu_pc = "exit"
    /\ core_context' = FALSE
    /\ trace' = Append(trace, "DoneCurrent")
    /\ emu_pc' = "done"
    /\ UNCHANGED <<running, exec_step, stop_run, was_active, emitted,
                   last_result>>

\* The host: SetRunning, ExecStep and RequestStop called from the UI thread.
Host_SetRunning(value) ==
    /\ emu_pc # "done"
    /\ ~stop_run
    /\ running # value
    /\ SetRunning(value)
    /\ UNCHANGED <<emu_pc, exec_step, stop_run, was_active, core_context,
                   trace, emitted, last_result>>

Host_ExecStep ==
    /\ emu_pc # "done"
    /\ ~stop_run
    /\ ~exec_step
    /\ exec_step' = TRUE
    /\ UNCHANGED <<emu_pc, running, stop_run, was_active, core_context,
                   trace, emitted, last_result>>

Host_RequestStop ==
    /\ emu_pc # "done"
    /\ ~stop_run
    /\ stop_run' = TRUE
    /\ SetRunning(FALSE)
    /\ UNCHANGED <<emu_pc, exec_step, was_active, core_context, trace,
                   emitted, last_result>>

NextEmu ==
    \/ EmuThread_Start /\ EmuFrame
    \/ EmuThread_Loop /\ EmuFrame
    \/ EmuThread_RunLoop_ShutdownRequested /\ EmuFrame
    \/ \E result \in RunResults : EmuThread_RunLoop(result) /\ EmuFrame
    \/ EmuThread_SingleStep /\ EmuFrame
    \/ EmuThread_Wait /\ EmuFrame
    \/ EmuThread_Shutdown /\ EmuFrame
    \/ EmuThread_Exit /\ EmuFrame
    \/ \E value \in BOOLEAN : Host_SetRunning(value) /\ EmuFrame
    \/ Host_ExecStep /\ EmuFrame
    \/ Host_RequestStop /\ EmuFrame

SpecEmu == Init /\ [][NextEmu]_vars

Occurrences(seq, e) == Cardinality({i \in 1..Len(seq) : seq[i] = e})

\* C24: a thread that has left its main loop and returned from run() has
\* called the core's Shutdown exactly once, after every RunLoop and
\* SingleStep call and directly before giving up the rendering context;
\* Shutdown is never called while the thread is in its loop.
C24_ShutdownOnceOnExit ==
    /\ Occurrences(trace, "Shutdown") <= 1
    /\ emu_pc \in {"start", "loop", "runloop", "step", "wait", "shutdown"}
       => /\ Occurrences(trace, "Shutdown") = 0
          /\ core_context = (emu_pc # "start")
    /\ emu_pc = "exit"
       => /\ core_context
          /\ Len(trace) >= 1
          /\ trace[Len(trace)] = "Shutdown"
    /\ emu_pc = "done"
       => /\ Len(trace) >= 2
          /\ trace[Len(trace)] = "DoneCurrent"
          /\ trace[Len(trace) - 1] = "Shutdown"
          /\ Occurrences(trace, "Shutdown") = 1
\* The thread has returned after the core asked for the shutdown.
C24_Witness ==
    /\ emu_pc = "done"
    /\ last_result = "ShutdownRequested"
    /\ ~stop_run
    /\ Occurrences(trace, "RunLoop") >= 1

\* A step in which RunLoop was called and returned.
RunLoopReturned ==
    /\ Len(trace') = Len(trace) + 1
    /\ trace'[Len(trace')] = "RunLoop"

\* C25: a RunLoop result of ShutdownRequested makes the thread emit
\* ErrorThrown with empty details and leave its loop; any other result
\* that is not Success clears the running flag, emits ErrorThrown with the
\* core's status details and leaves the thread in its loop; Success emits
\* nothing.
C25_Step ==
    RunLoopReturned
    => /\ last_result' = "ShutdownRequested"
          => /\ emitted' = Append(emitted, [result |-> "ShutdownRequested",
                                            details |-> ""])
             /\ emu_pc' = "shutdown"
             /\ running' = running
       /\ last_result' \notin {"ShutdownRequested", "Success"}
          => /\ emitted' = Append(emitted, [result |-> last_result',
                                            details |-> StatusDetails])
             /\ ~running'
             /\ emu_pc' = "loop"
       /\ last_result' = "Success"
          => /\ emitted' = emitted
             /\ running' = running
             /\ emu_pc' = "loop"
C25_ShutdownRequestDistinct == [][C25_Step]_vars
\* A failed run was reported with the details and the thread went on to
\* run again, and that run ended with the core's shutdown request.
C25_Witness ==
    /\ Len(emitted) = 2
    /\ emitted[1] = [result |-> "ErrorSystemFiles", details |-> StatusDetails]
    /\ emitted[2] = [result |-> "ShutdownRequested", details |-> ""]
    /\ emu_pc = "shutdown"
    /\ trace = <<"RunLoop", "RunLoop">>

\* ===================================================================
\* OnScreenDisplay and VideoPresentation::ToggleOSD (video_presentation)
\* ===================================================================
OsdFrame ==
    UNCHANGED <<gpu_vars, mailbox_vars, present_vars, ccm_vars, core_vars,
                shader_vars, reload_vars, emu_vars,
                conv_vars, late_vars>>

\* OnScreenDisplay::AddMessage: the body is empty.
OnScreenDisplay_AddMessage(message, type, ms, rgba) ==
    /\ osd_call' = [op |-> "AddMessage", message |-> message, type |-> type,
                    ms |-> ms, rgba |-> rgba]
    /\ UNCHANGED <<message_queue, fps, show_fps, progress, osd_enabled,
                   progress_value, completed_seen, osd_out>>

\* Mutant: ShowFPS installs the entry whether or not one is shown.
OnScreenDisplay_ShowFPS_Overwrite(message, value_provider, position) ==
    /\ fps' = [message |-> message, color |-> "YELLOW", duration |-> 0,
               position |-> position, value_provider |-> value_provider]
    /\ show_fps' = TRUE
    /\ osd_call' = [op |-> "ShowFPS", message |-> message,
                    value_provider |-> value_provider,
                    position |-> position]
    /\ UNCHANGED <<message_queue, progress, osd_enabled, progress_value,
                   completed_seen, osd_out>>

\* OnScreenDisplay::ShowFPS: returns when an entry is shown, else
\* queue->fps = {message, Color::YELLOW, 0ms, position, value_provider};
\* queue->show_fps = true;
OnScreenDisplay_ShowFPS(message, value_provider, position) ==
    /\ IF show_fps
       THEN UNCHANGED <<fps, show_fps>>
       ELSE /\ fps' = [message |-> message, color |-> "YELLOW",
                       duration |-> 0, position |-> position,
                       value_provider |-> value_provider]
            /\ show_fps' = TRUE
    /\ osd_call' = [op |-> "ShowFPS", message |-> message,
                    value_provider |-> value_provider,
                    position |-> position]
    /\ UNCHANGED <<message_queue, progress, osd_enabled, progress_value,
                   completed_seen, osd_out>>

\* OnScreenDisplay::RemoveFPS: queue->show_fps = false when it was set.
OnScreenDisplay_RemoveFPS ==
    /\ show_fps' = FALSE
    /\ osd_call' = [op |-> "RemoveFPS"]
    /\ UNCHANGED <<message_queue, fps, progress, osd_enabled,
                   progress_value, completed_seen, osd_out>>

\* OnScreenDisplay::ShowProgress:
\* queue->progress.push_back({message, Color::WHITE, 0ms, position,
\* value_provider});
OnScreenDisplay_ShowProgress(message, value_provider, position) ==
    /\ Len(progress) < MaxProgress
    /\ progress' = Append(progress,
                          [message |-> message, color |-> "WHITE",
                           duration |-> 0, position |-> position,
                           value_provider |-> value_provider])
    /\ osd_call' = [op |-> "ShowProgress"]
    /\ UNCHANGED <<message_queue, fps, show_fps, osd_enabled,
                   progress_value, completed_seen, osd_out>>

\* The value an FPS provider returns, the pair a progress provider returns.
FpsValue(value_provider) == 60 * value_provider
ProgressPair(value_provider) ==
    <<progress_value[value_provider], ProgressTotal>>

\* The work tracked by a progress provider advances.
Provider_Advance(p) ==
    /\ progress_value[p] < ProgressTotal
    /\ progress_value' = [progress_value EXCEPT ![p] = @ + 1]
    /\ UNCHANGED <<message_queue, fps, show_fps, progress, osd_enabled,
                   completed_seen, osd_out, osd_call>>

\* The records OnScreenDisplay::Render emits: the FPS entry when shown,
\* then every entry of queue->progress with the pair its provider returns.
\* again: an earlier Render already reported the entry as complete.
RenderFps ==
    IF show_fps
    THEN <<[kind |-> "fps", message |-> fps.message,
            value |-> FpsValue(fps.value_provider), total |-> 0,
            again |-> FALSE]>>
    ELSE <<>>
RenderProgress ==
    [i \in 1..Len(progress) |->
        [kind |-> "progress", message |-> progress[i].message,
         value |-> ProgressPair(progress[i].value_provider)[1],
         total |-> ProgressPair(progress[i].value_provider)[2],
         again |-> i \in completed_seen]]
OnScreenDisplay_Render ==
    /\ osd_out' = RenderFps \o RenderProgress
    /\ completed_seen' =
           completed_seen \cup
           {i \in 1..Len(progress) :
               ProgressPair(progress[i].value_provider)[1]
                   = ProgressPair(progress[i].value_provider)[2]}

\* VideoPresentation::Present: without a frame from the mailbox it
\* returns; with one it draws the screens, calls osd.Render() and inserts
\* the present fence.  (The mailbox and the fences are in SpecPresent.)
VideoPresentation_Present(has_frame) ==
    /\ IF has_frame
       THEN OnScreenDisplay_Render
       ELSE UNCHANGED <<osd_out, completed_seen>>
    /\ osd_call' = [op |-> "Present", frame |-> has_frame,
                    drawn |-> has_frame]
    /\ UNCHANGED <<message_queue, fps, show_fps, progress, osd_enabled,
                   progress_value>>

\* VideoPresentation::ToggleOSD: osd_enabled.exchange(osd);
VideoPresentation_ToggleOSD(osd) ==
    /\ osd_enabled' = IF osd THEN "true" ELSE "false"
    /\ osd_call' = [op |-> "ToggleOSD"]
    /\ UNCHANGED <<message_queue, fps, show_fps, progress, progress_value,
                   completed_seen, osd_out>>

NextOsd ==
    \/ \E a \in MessageArgs :
           OnScreenDisplay_AddMessage(a[1], a[2], a[3], a[4]) /\ OsdFrame
    \/ \E a \in FpsArgs : OnScreenDisplay_ShowFPS(a[1], a[2], a[3]) /\ OsdFrame
    \/ OnScreenDisplay_RemoveFPS /\ OsdFrame
    \/ \E p \in Providers :
           OnScreenDisplay_ShowProgress("Loading", p, "TopCenter") /\ OsdFrame
    \/ \E p \in Providers : Provider_Advance(p) /\ OsdFrame
    \/ \E has_frame \in BOOLEAN :
           VideoPresentation_Present(has_frame) /\ OsdFrame
    \/ \E osd \in BOOLEAN : VideoPresentation_ToggleOSD(osd) /\ OsdFrame

SpecOsd == Init /\ [][NextOsd]_vars

\* C26: a ShowFPS call made while an FPS entry is shown leaves the
\* installed message, position and value provider unchanged; a ShowFPS
\* call made while none is shown (at first, or after RemoveFPS) installs
\* its arguments and shows the entry; a Render emits at most one FPS
\* record.
C26_ShowFpsStep ==
    osd_call'.op = "ShowFPS"
    => /\ show_fps'
       /\ IF show_fps
          THEN fps' = fps
          ELSE /\ fps'.message = osd_call'.message
               /\ fps'.position = osd_call'.position
               /\ fps'.value_provider = osd_call'.value_provider
C26_OneFpsShown ==
    Cardinality({i \in 1..Len(osd_out) : osd_out[i].kind = "fps"}) <= 1
C26_SingleFps == [](C26_OneFpsShown) /\ [][C26_ShowFpsStep]_vars
\* A second ShowFPS with other arguments was ignored and the entry of the
\* first one rendered.
C26_Witness ==
    /\ osd_call.op = "ShowFPS"
    /\ show_fps
    /\ osd_call.value_provider # fps.value_provider
    /\ Len(osd_out) >= 1
    /\ osd_out[1].kind = "fps"
    /\ osd_out[1].message = fps.message

\* C27: while the on-screen display is switched off by ToggleOSD(false)
\* a Present draws the frame but emits no on-screen-display record: no
\* value provider is evaluated.
C27_OsdOffNotRendered ==
    (osd_call.op = "Present" /\ osd_enabled = "false")
    => /\ osd_call.drawn = osd_call.frame
       /\ osd_out = <<>>

\* C28: after AddMessage returns the message is in the message multimap
\* under its type, with its duration and colour.
C28_MessageQueued ==
    osd_call.op = "AddMessage"
    => \E i \in 1..Len(message_queue) :
           /\ message_queue[i].type = osd_call.type
           /\ message_queue[i].message = osd_call.message
           /\ message_queue[i].duration = osd_call.ms
           /\ message_queue[i].color = osd_call.rgba

\* C29: a progress entry whose provider reported completion (current
\* equal to total) in one Render is not emitted by the Render calls after
\* it.
C29_ProgressHiddenWhenComplete ==
    \A i \in 1..Len(osd_out) : ~osd_out[i].again

\* ===================================================================
\* FormatConverterOpenGL (gl_format_converter.cpp)
\* ===================================================================
ConvFrame ==
    UNCHANGED <<gpu_vars, mailbox_vars, present_vars, ccm_vars, core_vars,
                shader_vars, reload_vars, emu_vars, osd_vars, late_vars>>

\* FormatConverterOpenGL::FormatConverterOpenGL on a context with the
\* given extensions: the ReadPixel converter is always created, the
\* FastStencil converter when both extensions are present.
FormatConverterOpenGL_Construct(stencil_texturing, texture_view) ==
    /\ conv_pc = "unconstructed"
    /\ GL_ARB_stencil_texturing' = stencil_texturing
    /\ GL_ARB_texture_view' = texture_view
    /\ has_stencil_texture' = (stencil_texturing /\ texture_view)
    /\ converters' = [ReadPixel |-> TRUE,
                      FastStencil |-> has_stencil_texture']
    /\ conv_pc' = "ready"
    /\ UNCHANGED <<conv_call, conv_result>>

\* FormatConverterOpenGL::GetConverter: a reference to an element of
\* converters, or, from `return nullptr;`, a reference to a temporary
\* unique_ptr that is destroyed when the function returns.
GetConverter(src, dst) ==
    IF src = "D24S8" /\ dst = "RGBA8"
    THEN IF has_stencil_texture THEN "FastStencil" ELSE "ReadPixel"
    ELSE "dangling"

\* What the caller can observe through the dangling reference: a null
\* pointer, some other value, or a fault on the access.
DanglingReads == {"null", "garbage", "fault"}

\* FormatConverterOpenGL::Convert with a reference to an array element.
Convert_Element(src_format, dst_format) ==
    /\ conv_pc = "ready"
    /\ GetConverter(src_format, dst_format) # "dangling"
    /\ conv_call' = [src_format |-> src_format, dst_format |-> dst_format]
    /\ conv_result' =
           IF converters[GetConverter(src_format, dst_format)]
           THEN [ret |-> TRUE, ran |-> GetConverter(src_format, dst_format)]
           ELSE [ret |-> FALSE, ran |-> "none"]
    /\ UNCHANGED <<conv_pc, GL_ARB_stencil_texturing, GL_ARB_texture_view,
                   has_stencil_texture, converters>>

\* FormatConverterOpenGL::Convert with the dangling reference: !converter
\* reads the destroyed temporary.
Convert_Dangling(src_format, dst_format, read) ==
    /\ conv_pc = "ready"
    /\ GetConverter(src_format, dst_format) = "dangling"
    /\ conv_call' = [src_format |-> src_format, dst_format |-> dst_format]
    /\ conv_result' =
           CASE read = "null" -> [ret |-> FALSE, ran |-> "none"]
             [] read = "garbage" -> [ret |-> TRUE, ran |-> "undefined"]
             [] read = "fault" -> [ret |-> FALSE, ran |-> "fault"]
    /\ conv_pc' = IF read = "fault" THEN "crashed" ELSE "ready"
    /\ UNCHANGED <<GL_ARB_stencil_texturing, GL_ARB_texture_view,
                   has_stencil_texture, converters>>

NextConv ==
    \/ \E stencil_texturing, texture_view \in BOOLEAN :
           FormatConverterOpenGL_Construct(stencil_texturing, texture_view)
           /\ ConvFrame
    \/ \E src_format, dst_format \in PixelFormats :
           Convert_Element(src_format, dst_format) /\ ConvFrame
    \/ \E src_format, dst_format \in PixelFormats, read \in DanglingReads :
           Convert_Dangling(src_format, dst_format, read) /\ ConvFrame

SpecConv == Init /\ [][NextConv]_vars

\* C30: Convert returns false without converting for every format pair
\* other than (D24S8, RGBA8); for (D24S8, RGBA8) it returns true after
\* running the FastStencil converter when both extensions are present and
\* the ReadPixel converter otherwise.
C30_ConvertSelectsConverter ==
    conv_call.src_format # "none"
    => IF conv_call.src_format = "D24S8" /\ conv_call.dst_format = "RGBA8"
       THEN /\ conv_result.ret
            /\ conv_result.ran =
                   IF GL_ARB_stencil_texturing /\ GL_ARB_texture_view
                   THEN "FastStencil" ELSE "ReadPixel"
       ELSE /\ ~conv_result.ret
            /\ conv_result.ran = "none"
\* The part of C30 that holds: the depth-stencil pair is converted by the
\* converter the extensions select.
C30_DepthStencilPath ==
    (conv_call.src_format = "D24S8" /\ conv_call.dst_format = "RGBA8")
    => /\ conv_result.ret
       /\ conv_result.ran =
              IF GL_ARB_stencil_texturing /\ GL_ARB_texture_view
              THEN "FastStencil" ELSE "ReadPixel"

\* ===================================================================
\* VideoCore::GetResolutionScaleFactor
\* ===================================================================
ScaleFrame ==
    UNCHANGED <<gpu_vars, mailbox_vars, present_vars, ccm_vars,
                screenshot_vars, shader_vars, reload_vars, emu_vars,
                osd_vars, conv_vars, sync_vars, idle_vars, debug_vars,
                program_vars,
                reader_vars>>

\* The value the function returns for what it reads: the flag, the override
\* and the ratio of g_renderer's window layout.  All three are u16 values
\* below 2^16, so the conversion to the u16 result changes nothing.
GetResolutionScaleFactor_IgnoresFlag(hw, factor, ratio) ==
    IF factor # 0 THEN factor ELSE ratio

GetResolutionScaleFactor(hw, factor, ratio) ==
    IF hw
    THEN (IF factor # 0 THEN factor ELSE ratio)
    ELSE 1

\* Settings::Apply stores the hardware-renderer setting into the atomic.
Settings_SetHwRenderer ==
    /\ \E b \in BOOLEAN :
        /\ b # g_hw_renderer_enabled
        /\ g_hw_renderer_enabled' = b
    /\ UNCHANGED <<resolution_factor, scaling_ratio, scale_call, g_renderer,
                   g_gpu_thread, vc_pc>>
    /\ ScaleFrame

\* The configuration stores a resolution override (0: follow the window).
Settings_SetResolutionFactor ==
    /\ \E f \in Factors :
        /\ f # resolution_factor
        /\ resolution_factor' = f
    /\ UNCHANGED <<g_hw_renderer_enabled, scaling_ratio, scale_call,
                   g_renderer, g_gpu_thread, vc_pc>>
    /\ ScaleFrame

\* The window is resized: its framebuffer layout has another scaling ratio.
Window_Resize ==
    /\ \E r \in Ratios :
        /\ r # scaling_ratio
        /\ scaling_ratio' = r
    /\ UNCHANGED <<g_hw_renderer_enabled, resolution_factor, scale_call,
                   g_renderer, g_gpu_thread, vc_pc>>
    /\ ScaleFrame

\* A call of GetResolutionScaleFactor by the renderer or the render window,
\* which exist between VideoCore::Init and VideoCore::Shutdown only.
VideoCore_GetResolutionScaleFactor ==
    /\ vc_pc = "running"
    /\ g_renderer
    /\ scale_call' = [called |-> TRUE, hw |-> g_hw_renderer_enabled,
                      factor |-> resolution_factor, ratio |-> scaling_ratio,
                      ret |-> GetResolutionScaleFactor(g_hw_renderer_enabled,
                                  resolution_factor, scaling_ratio)]
    /\ UNCHANGED <<g_hw_renderer_enabled, resolution_factor, scaling_ratio,
                   g_renderer, g_gpu_thread, vc_pc>>
    /\ ScaleFrame

NextScale ==
    \/ VideoCore_Init_MakeRenderer
    \/ VideoCore_Init_MakeGpuThread
    \/ VideoCore_Init_Renderer
    \/ Settings_SetHwRenderer
    \/ Settings_SetResolutionFactor
    \/ Window_Resize
    \/ VideoCore_GetResolutionScaleFactor

SpecScale == Init /\ [][NextScale]_vars

\* C31: GetResolutionScaleFactor returns 1 whenever hardware rendering is
\* disabled, whatever override is configured; with hardware rendering
\* enabled it returns the override if that is non-zero and the scaling
\* ratio of the window's framebuffer layout otherwise.
C31_ResolutionScalePolicy ==
    scale_call.called =>
        /\ (~scale_call.hw) => scale_call.ret = 1
        /\ (scale_call.hw /\ scale_call.factor # 0)
               => scale_call.ret = scale_call.factor
        /\ (scale_call.hw /\ scale_call.factor = 0)
               => scale_call.ret = scale_call.ratio

\* Software rendering with an override of 3 configured: the call returned 1.
C31_Witness ==
    /\ scale_call.called
    /\ ~scale_call.hw
    /\ scale_call.factor = 3
    /\ scale_call.ret = 1

\* Hardware rendering without an override: the window's ratio was returned.
C31_WitnessWindowRatio ==
    /\ scale_call.called
    /\ scale_call.hw
    /\ scale_call.factor = 0
    /\ scale_call.ratio = 2
    /\ scale_call.ret = 2

\* ===================================================================
\* ThreadManager used by several threads: PushCommand, SignalCommands,
\* WaitForCommands, WaitForSynchronization and TrySynchronize step by step
\* ===================================================================
\* What the steps of the calling threads leave alone.
SyncFrame ==
    UNCHANGED <<use_async, is_running, ctx_held, acquire_count, pc_p, cur,
                cur_fence, wait_fence, dtor_pc, regs, calls, mailbox_vars,
                present_vars, ccm_vars, core_vars, shader_vars, reload_vars,
                emu_vars, osd_vars, conv_vars, scale_vars, idle_vars,
                debug_vars, program_vars,
                reader_vars>>

SetThread(t, pc, fence, wait) ==
    thread' = [thread EXCEPT ![t] = [pc |-> pc, fence |-> fence,
                                     wait |-> wait]]

\* A thread enters PushCommand.  const u64 fence{++state.last_fence}: the
\* counter is a plain u64, its increment a load followed by a store; this
\* step is the load.
Thread_PushCommand_LoadFence ==
    \E t \in Threads :
        /\ use_async
        /\ thread[t].pc = "idle"
        /\ Len(pushed) + Cardinality({u \in Threads :
               thread[u].pc \in {"push_store", "push_queue"}}) < MaxCommands
        /\ SetThread(t, "push_store", last_fence, thread[t].wait)
        /\ UNCHANGED <<queue, last_fence, signaled_fence, pc_w, next, pushed,
                       executed>>
        /\ SyncFrame

\* The store of the incremented value; fence is the value stored.
Thread_PushCommand_StoreFence ==
    \E t \in Threads :
        /\ thread[t].pc = "push_store"
        /\ last_fence' = thread[t].fence + 1
        /\ SetThread(t, "push_queue", thread[t].fence + 1, thread[t].wait)
        /\ UNCHANGED <<queue, signaled_fence, pc_w, next, pushed, executed>>
        /\ SyncFrame

\* state.queue.Push(CommandDataContainer(std::move(command_data), fence));
Thread_PushCommand_Push ==
    \E t \in Threads :
        /\ thread[t].pc = "push_queue"
        /\ queue' = Append(queue, CommandDataContainer(SwapBuffersCommand,
                                                       thread[t].fence))
        /\ pushed' = Append(pushed, [data |-> SwapBuffersCommand,
                                     fence |-> thread[t].fence, value |-> t])
        /\ SetThread(t, "push_signal", thread[t].fence, thread[t].wait)
        /\ UNCHANGED <<last_fence, signaled_fence, pc_w, next, executed>>
        /\ SyncFrame

\* state.SignalCommands(): notify_one without commands_mutex; only a worker
\* that is blocked inside the wait is woken.  return fence;
Thread_PushCommand_Signal ==
    \E t \in Threads :
        /\ thread[t].pc = "push_signal"
        /\ pc_w' = IF queue = <<>> THEN pc_w ELSE NotifyCommands(pc_w)
        /\ SetThread(t, "idle", thread[t].fence, thread[t].wait)
        /\ UNCHANGED <<queue, last_fence, signaled_fence, next, pushed,
                       executed>>
        /\ SyncFrame

\* WaitForSynchronization(fence): if (signaled_fence >= fence) return;
Thread_WaitForSynchronization_Call ==
    \E t \in Threads : \E fence \in 1..last_fence :
        /\ thread[t].pc = "idle"
        /\ SetThread(t, IF SynchronizationReached(fence)
                        THEN "ws_return" ELSE "ws_lock",
                     thread[t].fence, fence)
        /\ UNCHANGED <<queue, last_fence, signaled_fence, pc_w, next, pushed,
                       executed>>
        /\ SyncFrame

\* synchronization_condition.wait(lock, pred): predicate and block are one
\* step with respect to the notifier, which holds synchronization_mutex.
Thread_WaitForSynchronization_Wait ==
    \E t \in Threads :
        /\ thread[t].pc = "ws_lock"
        /\ SetThread(t, IF SynchronizationReached(thread[t].wait)
                        THEN "ws_return" ELSE "ws_blocked",
                     thread[t].fence, thread[t].wait)
        /\ UNCHANGED <<queue, last_fence, signaled_fence, pc_w, next, pushed,
                       executed>>
        /\ SyncFrame

Thread_WaitForSynchronization_Return ==
    \E t \in Threads :
        /\ thread[t].pc = "ws_return"
        /\ SetThread(t, "idle", thread[t].fence, thread[t].wait)
        /\ UNCHANGED <<queue, last_fence, signaled_fence, pc_w, next, pushed,
                       executed>>
        /\ SyncFrame

\* WaitForCommands: commands_condition.wait(lock, pred) is
\* while (!pred()) wait(lock).  The predicate runs under commands_mutex,
\* which no notifier takes: a notify can fall between the predicate and the
\* block.
WaitForCommands_Predicate ==
    /\ pc_w \in {"wait1", "wait2"}
    /\ pc_w' = IF queue # <<>>
               THEN (IF pc_w = "wait1" THEN "check_running" ELSE "pop")
               ELSE (IF pc_w = "wait1" THEN "block1" ELSE "block2")
    /\ UNCHANGED <<queue, signaled_fence, next, ctx_held, acquire_count,
                   executed>>
    /\ WorkerFrame

\* wait(lock): the worker releases the mutex and blocks.
WaitForCommands_Block ==
    /\ pc_w \in {"block1", "block2"}
    /\ pc_w' = IF pc_w = "block1" THEN "blocked1" ELSE "blocked2"
    /\ UNCHANGED <<queue, signaled_fence, next, ctx_held, acquire_count,
                   executed>>
    /\ WorkerFrame

\* TrySynchronize with several callers of WaitForSynchronization:
\* notify_one wakes one of the blocked threads, which then re-evaluates its
\* predicate.
Threads_TrySynchronize ==
    /\ pc_w = "try_sync"
    /\ LET blocked == {t \in Threads : thread[t].pc = "ws_blocked"}
       IN  IF IsSynchronized /\ blocked # {}
           THEN \E t \in blocked :
                    SetThread(t, "ws_lock", thread[t].fence, thread[t].wait)
           ELSE UNCHANGED thread
    /\ pc_w' = "pop"
    /\ UNCHANGED <<queue, last_fence, signaled_fence, next, pushed,
                   executed>>
    /\ SyncFrame

NextSync ==
    \/ Thread_PushCommand_LoadFence
    \/ Thread_PushCommand_StoreFence
    \/ Thread_PushCommand_Push
    \/ Thread_PushCommand_Signal
    \/ Thread_WaitForSynchronization_Call
    \/ Thread_WaitForSynchronization_Wait
    \/ Thread_WaitForSynchronization_Return
    \/ WaitForCommands_Predicate
    \/ WaitForCommands_Block
    \/ WaitForCommands_SpuriousWake
    \/ RunThread_CheckRunning
    \/ RunThread_AcquireContext
    \/ RunThread_LoopTest
    \/ RunThread_Pop
    \/ RunThread_Execute
    \/ RunThread_SetFence
    \/ Threads_TrySynchronize

SpecSync == Init /\ [][NextSync]_vars

\* No thread is about to notify the worker.
NoSignalPending ==
    \A t \in Threads : thread[t].pc \notin {"push_queue", "push_signal"}

\* C32: every command pushed while the manager is running is executed
\* without a later push being needed: the worker is never left blocked in
\* WaitForCommands with a non-empty queue and no notify still to come.
C32_WorkerNotLeftBlocked ==
    (pc_w \in {"blocked1", "blocked2"} /\ queue # <<>>) => ~NoSignalPending

\* The worker can block on an empty queue and be woken by a push.
C32_WokenByPush ==
    /\ Len(executed) = 1
    /\ Len(pushed) = 1
    /\ pc_w = "blocked2"


\* Nothing is left that would notify synchronization_condition: the queue
\* is drained, the worker waits for commands and no thread is pushing.
WorkerDrained ==
    /\ queue = <<>>
    /\ pc_w \in {"block2", "blocked2"}
    /\ \A u \in Threads : thread[u].pc \in {"idle", "ws_blocked"}

\* C33: every thread blocked in WaitForSynchronization(f) is released once
\* signaled_fence has reached f, also with several threads waiting: when
\* the worker has drained the queue no thread is still blocked on a fence
\* that has been signaled.
C33_WaiterReleased ==
    WorkerDrained =>
        \A t \in Threads :
            ~(thread[t].pc = "ws_blocked"
              /\ SynchronizationReached(thread[t].wait))

\* With one waiting thread the notify_one of TrySynchronize is enough.
C33_SingleWaiterReleased ==
    (WorkerDrained /\ thread[2].wait = 0) =>
        ~(thread[1].pc = "ws_blocked"
          /\ SynchronizationReached(thread[1].wait))

\* A thread blocked and was released by the worker's notify.
C33_ReleasedByNotify ==
    /\ thread[1].pc = "ws_return"
    /\ thread[1].wait = 1
    /\ thread[2].wait = 0
    /\ pc_w = "pop"
    /\ Len(executed) = 1

\* C34: the fences two threads obtain from concurrent PushCommand calls are
\* distinct and the queue receives the commands in increasing fence order.
C34_FencesDistinctInQueueOrder ==
    \A i, j \in 1..Len(pushed) :
        i < j => pushed[i].fence < pushed[j].fence

\* Calls that do not overlap obtain 1 and 2 and push in that order.
C34_SequentialCalls ==
    /\ Len(pushed) = 2
    /\ pushed[1].fence = 1
    /\ pushed[2].fence = 2
    /\ pushed[1].value # pushed[2].value

\* ===================================================================
\* The idle-tracking ThreadManager (two swapped queues, is_idle)
\* ===================================================================
IdleFrame ==
    UNCHANGED <<gpu_vars, mailbox_vars, present_vars, ccm_vars, core_vars,
                shader_vars, reload_vars, emu_vars, osd_vars, conv_vars,
                scale_vars, sync_vars, debug_vars, program_vars,
                reader_vars>>

\* SynchState::IsIdle
IsIdle == command_queues[0] = <<>> /\ command_queues[1] = <<>>

\* pop_queue is the queue push_queue does not point to.
pop_queue == 1 - push_queue

SetIdlePc(who, pc) == idle_pc' = [idle_pc EXCEPT ![who] = pc]

\* The predicate of the wait on idle_condition in PushCommand:
\* state.IsIdle() || state.is_idle
IdleWaitPredicate == IsIdle \/ is_idle

\* PushCommand(command_data, wait_for_idle, false) called by the emulation
\* thread: under signal_mutex, IsGpuThread() is false and allow_on_cpu is
\* false, so the command is emplaced into *push_queue.
Idle_PushCommand_Push ==
    \E wait_for_idle \in BOOLEAN :
        /\ idle_pc.cpu = "idle"
        /\ idle_call.id < MaxCommands
        /\ idle_call' = [id |-> idle_call.id + 1,
                         wait_for_idle |-> wait_for_idle]
        /\ command_queues' = [command_queues EXCEPT ![push_queue] =
                                  Append(@, idle_call.id + 1)]
        /\ SetIdlePc("cpu", "notify")
        /\ UNCHANGED <<push_queue, is_idle, idle_executed>>
        /\ IdleFrame

\* state.signal_condition.notify_one(); a GPU thread blocked in
\* WaitForWakeup re-evaluates its predicate.
Idle_PushCommand_Notify ==
    /\ idle_pc.cpu = "notify"
    /\ idle_pc' = [cpu |-> IF idle_call.wait_for_idle
                           THEN "idle_wait" ELSE "return",
                   gpu |-> CASE idle_pc.gpu = "blocked1" -> "wakeup1"
                             [] idle_pc.gpu = "blocked2" -> "wakeup2"
                             [] OTHER -> idle_pc.gpu]
    /\ UNCHANGED <<command_queues, push_queue, is_idle, idle_call,
                   idle_executed>>
    /\ IdleFrame

\* if (wait_for_idle) idle_condition.wait(lock, pred) under idle_mutex.
Idle_PushCommand_WaitForIdle ==
    /\ idle_pc.cpu = "idle_wait"
    /\ SetIdlePc("cpu", IF IdleWaitPredicate THEN "return"
                        ELSE "idle_blocked")
    /\ UNCHANGED <<command_queues, push_queue, is_idle, idle_call,
                   idle_executed>>
    /\ IdleFrame

\* PushCommand returns to the emulation thread.
Idle_PushCommand_Return ==
    /\ idle_pc.cpu = "return"
    /\ SetIdlePc("cpu", "idle")
    /\ UNCHANGED <<command_queues, push_queue, is_idle, idle_call,
                   idle_executed>>
    /\ IdleFrame

\* WaitForWakeup: signal_condition.wait(lock, pred) under signal_mutex with
\* the predicate !IsIdle() || !is_running.  Pushes take the same mutex, so
\* predicate and block are one step.
Idle_WaitForWakeup ==
    /\ idle_pc.gpu \in {"wakeup1", "wakeup2"}
    /\ SetIdlePc("gpu",
           IF ~IsIdle \/ ~is_running
           THEN (IF idle_pc.gpu = "wakeup1" THEN "check_running" ELSE "loop")
           ELSE (IF idle_pc.gpu = "wakeup1" THEN "blocked1" ELSE "blocked2"))
    /\ UNCHANGED <<command_queues, push_queue, is_idle, idle_call,
                   idle_executed>>
    /\ IdleFrame

\* if (!state.is_running) return; then the context is acquired.
Idle_RunThread_CheckRunning ==
    /\ idle_pc.gpu = "check_running"
    /\ SetIdlePc("gpu", IF ~is_running THEN "aborted" ELSE "loop")
    /\ UNCHANGED <<command_queues, push_queue, is_idle, idle_call,
                   idle_executed>>
    /\ IdleFrame

\* while (state.is_running) { if (!state.is_running) return;
Idle_RunThread_LoopTest ==
    /\ idle_pc.gpu = "loop"
    /\ SetIdlePc("gpu", IF is_running THEN "swap" ELSE "exited")
    /\ UNCHANGED <<command_queues, push_queue, is_idle, idle_call,
                   idle_executed>>
    /\ IdleFrame

\* state.SwapQueues() under signal_mutex.
Idle_RunThread_SwapQueues ==
    /\ idle_pc.gpu = "swap"
    /\ push_queue' = pop_queue
    /\ SetIdlePc("gpu", "set_busy")
    /\ UNCHANGED <<command_queues, is_idle, idle_call, idle_executed>>
    /\ IdleFrame

\* state.is_idle = false under idle_mutex.
Idle_RunThread_SetBusy ==
    /\ idle_pc.gpu = "set_busy"
    /\ is_idle' = FALSE
    /\ SetIdlePc("gpu", "pop_test")
    /\ UNCHANGED <<command_queues, push_queue, idle_call, idle_executed>>
    /\ IdleFrame

\* while (!state.pop_queue->empty())
Idle_RunThread_PopTest ==
    /\ idle_pc.gpu = "pop_test"
    /\ SetIdlePc("gpu", IF command_queues[pop_queue] # <<>>
                        THEN "exec" ELSE "idle_test")
    /\ UNCHANGED <<command_queues, push_queue, is_idle, idle_call,
                   idle_executed>>
    /\ IdleFrame

\* ExecuteCommand(&state.pop_queue->front(), renderer);
Idle_RunThread_Execute ==
    /\ idle_pc.gpu = "exec"
    /\ idle_executed' = Append(idle_executed, Head(command_queues[pop_queue]))
    /\ SetIdlePc("gpu", "pop")
    /\ UNCHANGED <<command_queues, push_queue, is_idle, idle_call>>
    /\ IdleFrame

\* state.pop_queue->pop();
Idle_RunThread_Pop ==
    /\ idle_pc.gpu = "pop"
    /\ command_queues' = [command_queues EXCEPT ![pop_queue] = Tail(@)]
    /\ SetIdlePc("gpu", "pop_test")
    /\ UNCHANGED <<push_queue, is_idle, idle_call, idle_executed>>
    /\ IdleFrame

\* if (state.IsIdle())
Idle_RunThread_IdleTest ==
    /\ idle_pc.gpu = "idle_test"
    /\ SetIdlePc("gpu", IF IsIdle THEN "set_idle" ELSE "wakeup2")
    /\ UNCHANGED <<command_queues, push_queue, is_idle, idle_call,
                   idle_executed>>
    /\ IdleFrame

\* state.is_idle = true under idle_mutex.
Idle_RunThread_SetIdle ==
    /\ idle_pc.gpu = "set_idle"
    /\ is_idle' = TRUE
    /\ SetIdlePc("gpu", "notify_idle")
    /\ UNCHANGED <<command_queues, push_queue, idle_call, idle_executed>>
    /\ IdleFrame

\* state.idle_condition.notify_one(); a caller blocked in PushCommand
\* re-evaluates its predicate.
Idle_RunThread_NotifyIdle ==
    /\ idle_pc.gpu = "notify_idle"
    /\ idle_pc' = [gpu |-> "wakeup2",
                   cpu |-> IF idle_pc.cpu = "idle_blocked"
                           THEN "idle_wait" ELSE idle_pc.cpu]
    /\ UNCHANGED <<command_queues, push_queue, is_idle, idle_call,
                   idle_executed>>
    /\ IdleFrame

NextIdle ==
    \/ Idle_PushCommand_Push
    \/ Idle_PushCommand_Notify
    \/ Idle_PushCommand_WaitForIdle
    \/ Idle_PushCommand_Return
    \/ Idle_WaitForWakeup
    \/ Idle_RunThread_CheckRunning
    \/ Idle_RunThread_LoopTest
    \/ Idle_RunThread_SwapQueues
    \/ Idle_RunThread_SetBusy
    \/ Idle_RunThread_PopTest
    \/ Idle_RunThread_Execute
    \/ Idle_RunThread_Pop
    \/ Idle_RunThread_IdleTest
    \/ Idle_RunThread_SetIdle
    \/ Idle_RunThread_NotifyIdle

SpecIdle == Init /\ [][NextIdle]_vars

IdleExecuted == {idle_executed[i] : i \in 1..Len(idle_executed)}

\* C35: a PushCommand call made with wait_for_idle = true does not return
\* before the GPU thread has executed the pushed command.
C35_WaitForIdleReturnsAfterExecution ==
    (idle_pc.cpu = "return" /\ idle_call.wait_for_idle)
        => idle_call.id \in IdleExecuted

\* A waiting call that blocked and returned after its command had run.
C35_ReturnedAfterExecution ==
    /\ idle_pc.cpu = "return"
    /\ idle_call.wait_for_idle
    /\ idle_call.id = 2
    /\ Len(idle_executed) = 2

\* ===================================================================
\* EmuThread::run statement by statement, with its debug-mode signals
\* ===================================================================
DebugFrame ==
    UNCHANGED <<gpu_vars, mailbox_vars, present_vars, ccm_vars, core_vars,
                shader_vars, reload_vars, osd_vars, conv_vars, scale_vars,
                sync_vars, idle_vars, program_vars,
                reader_vars>>

\* while (!stop_run)
Run_WhileTest ==
    /\ emu_pc = "loop"
    /\ emu_pc' = IF stop_run THEN "shutdown" ELSE "test_running"
    /\ UNCHANGED <<running, exec_step, stop_run, was_active, core_context,
                   trace, emitted, last_result, debug_vars>>
    /\ DebugFrame

\* Mutant: the branch is taken whatever the flag holds.
Run_TestRunning_Always ==
    /\ emu_pc = "test_running"
    /\ observed' = [running |-> running, exec_step |-> FALSE]
    /\ emu_pc' = "left_run"
    /\ UNCHANGED <<running, exec_step, stop_run, was_active, core_context,
                   trace, emitted, last_result, debug_mode, step_requests>>
    /\ DebugFrame

\* if (running)
Run_TestRunning ==
    /\ emu_pc = "test_running"
    /\ observed' = [running |-> running, exec_step |-> FALSE]
    /\ emu_pc' = IF running THEN "left_run" ELSE "test_step"
    /\ UNCHANGED <<running, exec_step, stop_run, was_active, core_context,
                   trace, emitted, last_result, debug_mode, step_requests>>
    /\ DebugFrame

\* else if (exec_step) ... else the wait
Run_TestExecStep ==
    /\ emu_pc = "test_step"
    /\ observed' = [observed EXCEPT !.exec_step = exec_step]
    /\ emu_pc' = IF exec_step THEN "left_step" ELSE "wait"
    /\ UNCHANGED <<running, exec_step, stop_run, was_active, core_context,
                   trace, emitted, last_result, debug_mode, step_requests>>
    /\ DebugFrame

\* if (!was_active) emit DebugModeLeft();  in either branch
Run_DebugModeLeft ==
    /\ emu_pc \in {"left_run", "left_step"}
    /\ debug_mode' = IF ~was_active THEN "DebugModeLeft" ELSE debug_mode
    /\ emu_pc' = IF emu_pc = "left_run" THEN "runloop" ELSE "clear_step"
    /\ UNCHANGED <<running, exec_step, stop_run, was_active, core_context,
                   trace, emitted, last_result, observed, step_requests>>
    /\ DebugFrame

\* RunLoop() and the handling of its result, as in EmuThread_RunLoop and
\* EmuThread_RunLoop_ShutdownRequested, up to the assignment of was_active.
Run_RunLoop ==
    /\ emu_pc = "runloop"
    /\ Len(trace) < MaxRuns
    /\ trace' = Append(trace, "RunLoop")
    /\ \E result \in RunResults :
        /\ last_result' = result
        /\ IF result = "ShutdownRequested"
           THEN /\ emitted' = Append(emitted, [result |-> result,
                                               details |-> ""])
                /\ emu_pc' = "shutdown"
                /\ UNCHANGED running
           ELSE /\ emu_pc' = "was_active"
                /\ IF result # "Success"
                   THEN /\ SetRunning(FALSE)
                        /\ emitted' = Append(emitted,
                               [result |-> result, details |-> StatusDetails])
                   ELSE UNCHANGED <<running, emitted>>
    /\ UNCHANGED <<exec_step, stop_run, was_active, core_context,
                   debug_vars>>
    /\ DebugFrame

\* was_active = running || exec_step;
Run_WasActive ==
    /\ emu_pc = "was_active"
    /\ was_active' = (running \/ exec_step)
    /\ emu_pc' = "entered_test"
    /\ UNCHANGED <<running, exec_step, stop_run, core_context, trace,
                   emitted, last_result, debug_vars>>
    /\ DebugFrame

\* if (!was_active && !stop_run) emit DebugModeEntered();
Run_DebugModeEntered ==
    /\ emu_pc = "entered_test"
    /\ debug_mode' = IF ~was_active /\ ~stop_run
                     THEN "DebugModeEntered" ELSE debug_mode
    /\ emu_pc' = "loop"
    /\ UNCHANGED <<running, exec_step, stop_run, was_active, core_context,
                   trace, emitted, last_result, observed, step_requests>>
    /\ DebugFrame

\* Mutant: the request is left standing.
Run_ClearExecStep_Kept ==
    /\ emu_pc = "clear_step"
    /\ emu_pc' = "single_step"
    /\ UNCHANGED <<running, exec_step, stop_run, was_active, core_context,
                   trace, emitted, last_result, debug_vars>>
    /\ DebugFrame

\* exec_step = false;
Run_ClearExecStep ==
    /\ emu_pc = "clear_step"
    /\ exec_step' = FALSE
    /\ emu_pc' = "single_step"
    /\ UNCHANGED <<running, stop_run, was_active, core_context, trace,
                   emitted, last_result, debug_vars>>
    /\ DebugFrame

\* SingleStep(); emit DebugModeEntered(); yieldCurrentThread();
\* was_active = false;
Run_SingleStep ==
    /\ emu_pc = "single_step"
    /\ Len(trace) < MaxRuns
    /\ trace' = Append(trace, "SingleStep")
    /\ debug_mode' = "DebugModeEntered"
    /\ was_active' = FALSE
    /\ emu_pc' = "loop"
    /\ UNCHANGED <<running, exec_step, stop_run, core_context, emitted,
                   last_result, observed, step_requests>>
    /\ DebugFrame

\* The host asks for one step: exec_step = true and running_cv is notified.
Debug_Host_ExecStep ==
    /\ Host_ExecStep
    /\ step_requests' = step_requests + 1
    /\ UNCHANGED <<observed, debug_mode>>
    /\ DebugFrame

NextDebug ==
    \/ EmuThread_Start /\ UNCHANGED debug_vars /\ DebugFrame
    \/ Run_WhileTest
    \/ Run_TestRunning
    \/ Run_TestExecStep
    \/ Run_DebugModeLeft
    \/ Run_RunLoop
    \/ Run_WasActive
    \/ Run_DebugModeEntered
    \/ Run_ClearExecStep
    \/ Run_SingleStep
    \/ EmuThread_Wait /\ UNCHANGED debug_vars /\ DebugFrame
    \/ EmuThread_Shutdown /\ UNCHANGED debug_vars /\ DebugFrame
    \/ EmuThread_Exit /\ UNCHANGED debug_vars /\ DebugFrame
    \/ \E value \in BOOLEAN :
           Host_SetRunning(value) /\ UNCHANGED debug_vars /\ DebugFrame
    \/ Debug_Host_ExecStep
    \/ Host_RequestStop /\ UNCHANGED debug_vars /\ DebugFrame

SpecDebug == Init /\ [][NextDebug]_vars

\* The predicate of the wait on running_cv.
WaitPredicate == running \/ exec_step \/ stop_run

\* A step in which the core was entered by the given call.
CoreCalled(call) ==
    /\ Len(trace') = Len(trace) + 1
    /\ trace'[Len(trace')] = call

\* C36: in each iteration the thread calls RunLoop only if it read the
\* running flag set, calls SingleStep only if it read running clear and
\* exec_step set and has cleared exec_step before the step (every step
\* answers a request of its own), and otherwise waits, leaving the wait
\* only once running, exec_step or stop_run is set.
C36_Step ==
    /\ CoreCalled("RunLoop") => observed.running
    /\ CoreCalled("SingleStep")
           => /\ ~observed.running
              /\ observed.exec_step
              /\ Occurrences(trace', "SingleStep") <= step_requests
    /\ (emu_pc # "wait" /\ emu_pc' = "wait")
           => (~observed'.running /\ ~observed'.exec_step)
    /\ (emu_pc = "wait" /\ emu_pc' # "wait") => WaitPredicate
C36_BranchFollowsFlags == [][C36_Step]_vars

\* One request, one step, and the thread is back in its wait with running
\* and exec_step clear.
C36_Witness ==
    /\ trace = <<"SingleStep">>
    /\ step_requests = 1
    /\ emu_pc = "wait"
    /\ ~WaitPredicate

C37_PauseAnnounced ==
    /\ emu_pc = "wait"
    /\ ~WaitPredicate
    /\ trace = <<"RunLoop">>
    /\ debug_mode = "DebugModeEntered"

\* ===================================================================
\* ShaderProgramManager: Use...Shader and ApplyTo
\* ===================================================================
ProgramFrame ==
    UNCHANGED <<gpu_vars, mailbox_vars, present_vars, ccm_vars, core_vars,
                shader_vars, reload_vars, emu_vars, osd_vars, conv_vars,
                scale_vars, sync_vars, idle_vars, debug_vars,
                reader_vars>>

\* UseProgrammableVertexShader with a non-zero handle, UseTrivialVertexShader
UseVertexShader ==
    /\ \E handle \in StageHandles.vs :
        /\ handle # current.vs
        /\ current' = [current EXCEPT !.vs = handle]
    /\ UNCHANGED <<program_cache, shader_program, linked, appended>>
    /\ ProgramFrame

\* UseProgrammableGeometryShader, UseFixedGeometryShader,
\* UseTrivialGeometryShader (gs = 0)
UseGeometryShader ==
    /\ \E handle \in StageHandles.gs :
        /\ handle # current.gs
        /\ current' = [current EXCEPT !.gs = handle]
    /\ UNCHANGED <<program_cache, shader_program, linked, appended>>
    /\ ProgramFrame

\* UseFragmentShader
UseFragmentShader ==
    /\ \E handle \in StageHandles.fs :
        /\ handle # current.fs
        /\ current' = [current EXCEPT !.fs = handle]
    /\ UNCHANGED <<program_cache, shader_program, linked, appended>>
    /\ ProgramFrame

\* OGLProgram::Create({vs, gs, fs}) on a program without handle: a new
\* program name when the stages link, the invalid handle 0 otherwise.
CreateProgram(ok) ==
    IF ok
    THEN 1 + Cardinality({t \in DOMAIN program_cache : program_cache[t] # 0})
    ELSE 0

\* ShaderProgramManager::ApplyTo: program_cache[current] inserts an empty
\* OGLProgram when the triple is new; a program without handle is linked,
\* its binary appended to binary_cache; the handle becomes the draw
\* state's program.  A draw is made with a vertex and a fragment stage
\* selected.
ApplyTo ==
    /\ current \in ShaderTuples
    /\ IF program_cache[current] = 0
       THEN \E ok \in BOOLEAN :
               /\ program_cache' = [program_cache EXCEPT
                                        ![current] = CreateProgram(ok)]
               /\ linked' = [linked EXCEPT ![current] = Count(@)]
               /\ appended' = [appended EXCEPT ![current] = Count(@)]
       ELSE UNCHANGED <<program_cache, linked, appended>>
    /\ shader_program' = program_cache'[current]
    /\ UNCHANGED current
    /\ ProgramFrame

NextProgram ==
    \/ UseVertexShader
    \/ UseGeometryShader
    \/ UseFragmentShader
    \/ ApplyTo

SpecProgram == Init /\ [][NextProgram]_vars

\* C38: ApplyTo links a program and appends a record to the disk binary
\* cache at most once per distinct (vertex, geometry, fragment) triple.
C38_LinkedOncePerTriple ==
    \A t \in DOMAIN program_cache : linked[t] <= 1 /\ appended[t] <= 1

\* A triple whose program linked is neither linked nor appended again.
C38_Step ==
    \A t \in DOMAIN program_cache :
        program_cache[t] # 0
            => /\ linked'[t] = linked[t]
               /\ appended'[t] = appended[t]
               /\ program_cache'[t] = program_cache[t]
C38_LinkedProgramReused == [][C38_Step]_vars

\* Two ApplyTo calls with the same linked triple, another triple in between.
C38_Reused ==
    /\ current = [vs |-> 1, gs |-> 0, fs |-> 4]
    /\ program_cache[current] = 1
    /\ shader_program = 1
    /\ program_cache[[vs |-> 2, gs |-> 0, fs |-> 4]] = 2
    /\ linked[current] = 1

\* ===================================================================
\* BinaryCacheReader::Read (disk shader-binary cache)
\* ===================================================================
ReaderFrame ==
    UNCHANGED <<gpu_vars, mailbox_vars, present_vars, ccm_vars, core_vars,
                shader_vars, reload_vars, emu_vars, osd_vars, conv_vars,
                scale_vars, sync_vars, idle_vars, debug_vars, program_vars>>

\* The conversion of a u64 key to the u32 element type of
\* std::vector<u32>: the value modulo 2^32, which is the lower half.
ToU32(key) == key.lo

\* The value of a key held in full equals the u32 entry only when its upper
\* half is zero.
HoldsFullKey(entry, key) == key.hi = 0 /\ key.lo = entry

\* BinaryCacheReader::Read(key, value, value_size); program_ok tells
\* whether the driver accepts the binary (program.handle != 0).
Read ==
    \E key \in HashKeys, value_size \in ValueSizes, program_ok \in BOOLEAN :
        /\ Len(records) < MaxRecords
        /\ all_keys' = Append(all_keys, ToU32(key))
        /\ LET failed == value_size < SizeofGLenum \/ ~program_ok
           IN  /\ failed_to_load' = IF failed
                                    THEN Append(failed_to_load, ToU32(key))
                                    ELSE failed_to_load
               /\ records' = Append(records, [key |-> key,
                                              failed |-> failed])
        /\ ReaderFrame

NextReader == Read

SpecReader == Init /\ [][NextReader]_vars

IsFailed(record) == record.failed
\* The records that failed to load, in the order they were read.
FailedRecords == SelectSeq(records, IsFailed)

\* C39: every record that fails to load is recorded in the failed list
\* under its full 64-bit key, so that records with distinct keys yield
\* distinct failed entries.
C39_FailedUnderFullKey ==
    /\ Len(failed_to_load) = Len(FailedRecords)
    /\ \A i \in 1..Len(failed_to_load) :
           i <= Len(FailedRecords)
               => HoldsFullKey(failed_to_load[i], FailedRecords[i].key)
    /\ \A i, j \in 1..Len(failed_to_load) :
           (i <= Len(FailedRecords) /\ j <= Len(FailedRecords)
            /\ FailedRecords[i].key # FailedRecords[j].key)
               => failed_to_load[i] # failed_to_load[j]

\* Every failed record has an entry, and the entry is the key's lower half.
C39_FailedUnderLowerHalf ==
    /\ Len(failed_to_load) = Len(FailedRecords)
    /\ \A i \in 1..Len(failed_to_load) :
           i <= Len(FailedRecords)
               => failed_to_load[i] = FailedRecords[i].key.lo

\* A too short record and a record the driver rejects, both listed.
C39_BothFailuresListed ==
    /\ Len(records) = 2
    /\ Len(failed_to_load) = 2
    /\ failed_to_load = <<5, 6>>

\* ===================================================================
\* Live fences of a frame (SpecPresent)
\* ===================================================================
\* A step in which Present stores a new present fence in its frame.
PresentFenceStored == pc_c = "present_fence" /\ pc_c' = "idle"

\* A step in which SwapBuffers stores a new render fence in its frame.
RenderFenceStored == pc_s = "fence" /\ pc_s' = "release"

\* C40: each frame has at most one live present fence and at most one live
\* render fence: when a fence is stored in a frame, the fence stored there
\* before has been deleted (the slot holds 0), also when the presenter
\* presents the same frame again.
C40_Step ==
    /\ PresentFenceStored => present_fence[present_ret] = 0
    /\ RenderFenceStored => render_fence[render_frame] = 0
C40_OneLiveFencePerSlot == [][C40_Step]_vars

\* The render fence of a frame is always deleted before the next is stored.
C40_RenderStep == RenderFenceStored => render_fence[render_frame] = 0
C40_RenderFenceDeletedFirst == [][C40_RenderStep]_vars

\* A frame that was presented is rendered into again with both slots
\* cleared.
C40_SlotsCleared ==
    /\ pc_s = "fence"
    /\ render_frame = 1
    /\ rendered[1] = 2
    /\ render_fence[1] = 0
    /\ present_fence[1] = 0

====
